---- MODULE Spec2Model ----
(***************************************************************************)
(* Verification model of the gangganghao-fastapi backend: the RBAC graph   *)
(* (sys_user, sys_role, sys_permission and their association tables), the  *)
(* permission resolver check_permission, the gated request handlers, the  *)
(* JWT validation in get_current_user and the order numbering sequencer.   *)
(*                                                                         *)
(* One request handler is one action: a handler runs inside one database   *)
(* session and its writes become visible at db.commit().                   *)
(***************************************************************************)
EXTENDS Integers, Sequences, FiniteSets, TLC

VARIABLES
    sys_user,                    \* rows of sys_user
    user_role_association,       \* rows <<user_id, role_id>>
    sys_role,                    \* rows of sys_role
    sys_department,              \* rows of sys_department
    sys_page,                    \* ids of the rows of sys_page
    sys_permission,              \* rows of sys_permission
    rel_role_permission,         \* rows <<role_id, permission_id>>, secondary of SysPermission.roles
    role_permission_association, \* rows <<role_id, permission_id>>, secondary of SysRole.permissions
    sys_order,                   \* rows of sys_order
    next_id,                     \* AUTO_INCREMENT counter of each table
    flush_first,                 \* the relationship the ORM's unit of work flushes first
    now,                         \* datetime.utcnow(), in minutes
    bearer,                      \* the token a caller holds, and when it was issued
    client,                      \* the importing clients: what each did and was told
    parser                       \* ExcelParser.parse_excel: its input, locals and position

vars == <<sys_user, user_role_association, sys_role, sys_department, sys_page,
          sys_permission,
          rel_role_permission, role_permission_association, sys_order,
          next_id, flush_first, now, bearer, client, parser>>

----------------------------------------------------------------------------
\* Bounds of the model.

MaxUser == 2
MaxRole == 2
MaxPerm == 2
MaxIds == 2

UserIds == 1..MaxUser
RoleIds == 1..MaxRole
PermIds == 1..MaxPerm

\* Python's None, and its rendering by an f-string.
None == "<None>"

str(x) == IF x = None THEN "None" ELSE x

\* Permission codes the handlers ask for, and display names a caller may give.
Codes == {"role:assign", "user:create", "user:delete", "permission:create",
          "permission:delete"}

\* The display name a caller gives the permission of a code.
DisplayName(code) ==
    CASE code = "role:assign" -> "Assign permissions"
      [] code = "user:create" -> "Create user"
      [] code = "user:delete" -> "Delete user"
      [] code = "permission:create" -> "Create permission"
      [] code = "permission:delete" -> "Delete permission"
      [] code = "user:update" -> "Update user"
      [] code = "department:create" -> "Create department"
      [] code = "department:update" -> "Update department"
      [] code = "department:delete" -> "Delete department"

\* All sequences over S of length at most n.
SeqsUpTo(S, n) == UNION {[1..k -> S] : k \in 0..n}

Range(f) == {f[i] : i \in DOMAIN f}

\* The id lists of a request body: the lists of at most MaxIds ids, one list
\* for each multiset of ids.
IdLists(S) ==
    {s \in SeqsUpTo(S, MaxIds) : \A i \in 1..(Len(s) - 1) : s[i] <= s[i + 1]}

----------------------------------------------------------------------------
\* The ORM relationships.

\* SysUser.roles: the roles reached through user_role_association.
roles(user_id) ==
    {r.id : r \in {x \in sys_role : <<user_id, x.id>> \in user_role_association}}

\* SysRole.permissions: the permissions reached through role_permission_association.
permissions(role_id) ==
    {p \in sys_permission : <<role_id, p.id>> \in role_permission_association}

\* SysPermission.roles: the roles reached through rel_role_permission.
permission_roles(permission_id) ==
    {r.id : r \in {x \in sys_role : <<x.id, permission_id>> \in rel_role_permission}}

----------------------------------------------------------------------------
\* check_permission(user, permission_code, db) -> (bool, name)

\* A resolver that forgets the role filter of its first query.
check_permission_any_role(user, permission_code) ==
    LET permission_info == {p \in sys_permission :
                               p.permission_code = permission_code}
    IN  IF roles(user) = {}
        THEN <<FALSE, None>>
        ELSE IF permission_info # {}
        THEN <<TRUE, (CHOOSE p \in permission_info : TRUE).permission_name>>
        ELSE <<FALSE, permission_code>>

\* A resolver without the early return for a user that has no role.
check_permission_no_early_return(user, permission_code) ==
    LET permission == {p \in sys_permission :
                          /\ p.permission_code = permission_code
                          /\ permission_roles(p.id) \cap roles(user) # {}}
        permission_info == {p \in sys_permission :
                               p.permission_code = permission_code}
    IN  IF permission # {}
        THEN <<TRUE, (CHOOSE p \in permission : TRUE).permission_name>>
        ELSE <<FALSE, IF permission_info # {}
                      THEN (CHOOSE p \in permission_info : TRUE).permission_name
                      ELSE permission_code>>

\* A resolver whose second lookup has no fallback to the code.
check_permission_no_fallback(user, permission_code) ==
    LET permission == {p \in sys_permission :
                          /\ p.permission_code = permission_code
                          /\ permission_roles(p.id) \cap roles(user) # {}}
        permission_info == {p \in sys_permission :
                               p.permission_code = permission_code}
    IN  IF roles(user) = {}
        THEN <<FALSE, None>>
        ELSE IF permission # {}
        THEN <<TRUE, (CHOOSE p \in permission : TRUE).permission_name>>
        ELSE <<FALSE, IF permission_info # {}
                      THEN (CHOOSE p \in permission_info : TRUE).permission_name
                      ELSE None>>

check_permission(user, permission_code) ==
    LET user_role_ids == roles(user)
        permission == {p \in sys_permission :
                          /\ p.permission_code = permission_code
                          /\ permission_roles(p.id) \cap user_role_ids # {}}
        permission_info == {p \in sys_permission :
                               p.permission_code = permission_code}
    IN  IF user_role_ids = {}
        THEN <<FALSE, None>>
        ELSE IF permission # {}
        THEN <<TRUE, (CHOOSE p \in permission : TRUE).permission_name>>
        ELSE <<FALSE, IF permission_info # {}
                      THEN (CHOOSE p \in permission_info : TRUE).permission_name
                      ELSE permission_code>>

\* Truth value Python gives a tuple in `if not check_permission(...)`.
bool_tuple(t) == Len(t) # 0

\* require_permission(permission_code)(func): the wrapper, called with the
\* keyword arguments current_user and db (has_user, has_db: whether the
\* caller passes them).  invoked tells whether func is awaited.
require_permission(permission_code, has_user, has_db, current_user) ==
    IF ~has_user \/ ~has_db
    THEN [status |-> 401, invoked |-> FALSE]
    ELSE IF ~bool_tuple(check_permission(current_user, permission_code))
    THEN [status |-> 403, invoked |-> FALSE]
    ELSE [status |-> 200, invoked |-> TRUE]

----------------------------------------------------------------------------
\* Responses.  A handler's response is a function of its request and of the
\* database it reads; the handler writes exactly when it answers 200.

Response(status, msg, arg) == [status |-> status, detail |-> <<msg, arg>>]

\* detail=f"权限不足，需要权限: {permission_name}"
Forbidden(permission_name) ==
    Response(403, "forbidden, permission required: ", str(permission_name))

\* The database: its tables, and the ORM that writes them.
db == <<sys_user, user_role_association, sys_role, sys_department, sys_page,
        sys_permission, rel_role_permission, role_permission_association,
        sys_order, next_id, flush_first>>

\* What lives outside the database.
env == <<now, bearer, client, parser>>

----------------------------------------------------------------------------
\* POST /api/users

create_user_response(current_user, username, id_card, department_id, role_ids) ==
    LET result == check_permission(current_user, "user:create")
        has_permission == result[1]
        permission_name == result[2]
        found == {r \in sys_role : r.id \in Range(role_ids)}
    IN  IF ~has_permission
        THEN Forbidden(permission_name)
        ELSE IF \E u \in sys_user : u.username = username
        THEN Response(400, "username exists", "")
        ELSE IF \E u \in sys_user : u.id_card = id_card
        THEN Response(400, "id_card exists", "")
        ELSE IF ~\E d \in sys_department : d.id = department_id
        THEN Response(400, "department does not exist", "")
        ELSE IF Len(role_ids) # 0 /\ Cardinality(found) # Len(role_ids)
        THEN Response(400, "some roles do not exist", "")
        ELSE Response(200, "user created", "")

create_user(current_user, username, id_card, department_id, role_ids) ==
    LET found == {r \in sys_role : r.id \in Range(role_ids)}
        new_id == next_id.sys_user
    IN  IF create_user_response(current_user, username, id_card, department_id,
                                role_ids).status # 200
        THEN UNCHANGED db
        ELSE /\ sys_user' = sys_user \cup
                    {[id |-> new_id, username |-> username, id_card |-> id_card,
                      department_id |-> department_id]}
             /\ user_role_association' = user_role_association \cup
                    {<<new_id, r.id>> : r \in found}
             /\ next_id' = [next_id EXCEPT !.sys_user = new_id + 1]
             /\ UNCHANGED <<sys_role, sys_department, sys_page, sys_permission,
                            rel_role_permission, role_permission_association,
                            sys_order, flush_first>>

\* DELETE /api/users/{user_id}
delete_user_response(current_user, user_id) ==
    LET result == check_permission(current_user, "user:delete")
        has_permission == result[1]
        permission_name == result[2]
    IN  IF ~has_permission
        THEN Forbidden(permission_name)
        ELSE IF ~\E u \in sys_user : u.id = user_id
        THEN Response(404, "user does not exist", "")
        ELSE IF user_id = current_user
        THEN Response(400, "cannot delete yourself", "")
        ELSE Response(200, "user deleted", "")

delete_user(current_user, user_id) ==
    IF delete_user_response(current_user, user_id).status # 200
    THEN UNCHANGED db
    ELSE /\ sys_user' = {u \in sys_user : u.id # user_id}
         /\ user_role_association' =
                {a \in user_role_association : a[1] # user_id}
         /\ UNCHANGED <<sys_role, sys_department, sys_page, sys_permission,
                        rel_role_permission, role_permission_association,
                        sys_order, next_id, flush_first>>

----------------------------------------------------------------------------
\* PATCH /api/users/{user_id}: id_card = NoCard and department_id = NoId are
\* the fields the request leaves out (None in the request model).

NoId == 0

NoCard == <<>>

update_user_response(current_user, user_id, id_card, department_id) ==
    LET result == check_permission(current_user, "user:update")
        has_permission == result[1]
        permission_name == result[2]
        db_user == CHOOSE u \in sys_user : u.id = user_id
    IN  IF ~has_permission
        THEN Forbidden(permission_name)
        ELSE IF ~\E u \in sys_user : u.id = user_id
        THEN Response(404, "user does not exist", "")
        ELSE IF /\ id_card # NoCard
                /\ id_card # db_user.id_card
                /\ \E u \in sys_user : u.id_card = id_card /\ u.id # user_id
        THEN Response(400, "id_card used by another user", "")
        ELSE IF /\ department_id # NoId
                /\ ~\E d \in sys_department : d.id = department_id
        THEN Response(400, "department does not exist", "")
        ELSE Response(200, "user updated", "")

update_user(current_user, user_id, id_card, department_id) ==
    IF update_user_response(current_user, user_id, id_card,
                            department_id).status # 200
    THEN UNCHANGED db
    ELSE /\ sys_user' =
                {IF u.id # user_id THEN u
                 ELSE [u EXCEPT
                         !.id_card = IF id_card # NoCard THEN id_card ELSE @,
                         !.department_id = IF department_id # NoId
                                           THEN department_id ELSE @] :
                    u \in sys_user}
         /\ UNCHANGED <<user_role_association, sys_role, sys_department,
                        sys_page, sys_permission, rel_role_permission,
                        role_permission_association, sys_order, next_id,
                        flush_first>>

\* PUT /api/auth/profile: the handler sets the fields of current_user and
\* then reads update_request.department, a field that UpdateProfileRequest
\* does not have (it has department_id).  The AttributeError is not caught,
\* db.commit() is not reached, and get_db closes the session with the
\* changes in it.
update_profile_response(current_user, id_card) ==
    Response(500, "AttributeError", "department")

update_profile(current_user, id_card) ==
    IF update_profile_response(current_user, id_card).status # 200
    THEN UNCHANGED db
    ELSE /\ sys_user' =
                {IF u.id # current_user THEN u
                 ELSE [u EXCEPT !.id_card = IF id_card # NoCard THEN id_card ELSE @] :
                    u \in sys_user}
         /\ UNCHANGED <<user_role_association, sys_role, sys_department,
                        sys_page, sys_permission, rel_role_permission,
                        role_permission_association, sys_order, next_id,
                        flush_first>>

----------------------------------------------------------------------------
\* The departments.  parent_id = NoId is the NULL of a department without a
\* parent, and the parent_id a request leaves out.

\* SysDepartment.children: the backref of SysDepartment.parent.
children(dept_id) == {d \in sys_department : d.parent_id = dept_id}

\* POST /api/departments
create_department_response(current_user, department_name, parent_id) ==
    LET result == check_permission(current_user, "department:create")
        has_permission == result[1]
        permission_name == result[2]
    IN  IF ~has_permission
        THEN Forbidden(permission_name)
        ELSE IF \E d \in sys_department : d.department_name = department_name
        THEN Response(400, "department name exists", "")
        ELSE IF parent_id # NoId /\ ~\E d \in sys_department : d.id = parent_id
        THEN Response(400, "parent department does not exist", "")
        ELSE Response(200, "department created", "")

create_department(current_user, department_name, parent_id) ==
    IF create_department_response(current_user, department_name,
                                  parent_id).status # 200
    THEN UNCHANGED db
    ELSE /\ sys_department' = sys_department \cup
                {[id |-> next_id.sys_department,
                  department_name |-> department_name, parent_id |-> parent_id]}
         /\ next_id' = [next_id EXCEPT !.sys_department = @ + 1]
         /\ UNCHANGED <<sys_user, user_role_association, sys_role, sys_page,
                        sys_permission, rel_role_permission,
                        role_permission_association, sys_order, flush_first>>

\* PATCH /api/departments/{dept_id}
update_department_response(current_user, dept_id, department_name, parent_id) ==
    LET result == check_permission(current_user, "department:update")
        has_permission == result[1]
        permission_name == result[2]
        db_dept == CHOOSE d \in sys_department : d.id = dept_id
    IN  IF ~has_permission
        THEN Forbidden(permission_name)
        ELSE IF ~\E d \in sys_department : d.id = dept_id
        THEN Response(404, "department does not exist", "")
        ELSE IF /\ department_name # None
                /\ department_name # db_dept.department_name
                /\ \E d \in sys_department :
                      d.department_name = department_name /\ d.id # dept_id
        THEN Response(400, "department name used by another department", "")
        ELSE IF /\ parent_id # NoId
                /\ parent_id # db_dept.parent_id
                /\ ~\E d \in sys_department : d.id = parent_id
        THEN Response(400, "parent department does not exist", "")
        ELSE IF /\ parent_id # NoId
                /\ parent_id # db_dept.parent_id
                /\ parent_id = dept_id
        THEN Response(400, "a department cannot be its own parent", "")
        ELSE Response(200, "department updated", "")

update_department(current_user, dept_id, department_name, parent_id) ==
    IF update_department_response(current_user, dept_id, department_name,
                                  parent_id).status # 200
    THEN UNCHANGED db
    ELSE /\ sys_department' =
                {IF d.id # dept_id THEN d
                 ELSE [d EXCEPT
                         !.department_name = IF department_name # None
                                             THEN department_name ELSE @,
                         !.parent_id = IF parent_id # NoId THEN parent_id ELSE @] :
                    d \in sys_department}
         /\ UNCHANGED <<sys_user, user_role_association, sys_role, sys_page,
                        sys_permission, rel_role_permission,
                        role_permission_association, sys_order, next_id,
                        flush_first>>

\* A delete whose database lets the row go while users reference it.
delete_department_response_children_only(current_user, dept_id) ==
    LET result == check_permission(current_user, "department:delete")
        has_permission == result[1]
        permission_name == result[2]
    IN  IF ~has_permission
        THEN Forbidden(permission_name)
        ELSE IF ~\E d \in sys_department : d.id = dept_id
        THEN Response(404, "department does not exist", "")
        ELSE IF children(dept_id) # {}
        THEN Response(400, "the department still has children", "")
        ELSE Response(200, "department deleted", "")

\* DELETE /api/departments/{dept_id}: the handler looks at the children
\* only; sys_user.department_id is a foreign key that is not nullable, so
\* the DELETE of a department that a user references fails and the handler
\* does not catch the error.
delete_department_response(current_user, dept_id) ==
    LET result == check_permission(current_user, "department:delete")
        has_permission == result[1]
        permission_name == result[2]
    IN  IF ~has_permission
        THEN Forbidden(permission_name)
        ELSE IF ~\E d \in sys_department : d.id = dept_id
        THEN Response(404, "department does not exist", "")
        ELSE IF children(dept_id) # {}
        THEN Response(400, "the department still has children", "")
        ELSE IF \E u \in sys_user : u.department_id = dept_id
        THEN Response(500, "IntegrityError", "")
        ELSE Response(200, "department deleted", "")

delete_department(current_user, dept_id) ==
    IF delete_department_response(current_user, dept_id).status # 200
    THEN UNCHANGED db
    ELSE /\ sys_department' = {d \in sys_department : d.id # dept_id}
         /\ UNCHANGED <<sys_user, user_role_association, sys_role, sys_page,
                        sys_permission, rel_role_permission,
                        role_permission_association, sys_order, next_id,
                        flush_first>>

----------------------------------------------------------------------------
\* POST /api/roles: no permission is checked.

create_role_response(current_user, role_name) ==
    IF \E r \in sys_role : r.role_name = role_name
    THEN Response(400, "role name exists", "")
    ELSE Response(200, "role created", "")

create_role(current_user, role_name) ==
    LET new_id == next_id.sys_role
    IN  IF create_role_response(current_user, role_name).status # 200
        THEN UNCHANGED db
        ELSE /\ sys_role' = sys_role \cup {[id |-> new_id, role_name |-> role_name]}
             /\ next_id' = [next_id EXCEPT !.sys_role = new_id + 1]
             /\ UNCHANGED <<sys_user, user_role_association, sys_department,
                            sys_page, sys_permission, rel_role_permission,
                            role_permission_association, sys_order, flush_first>>

\* SysRole.users: the users reached through user_role_association.
role_users(role_id) == {a[1] : a \in {x \in user_role_association : x[2] = role_id}}

\* A delete that does not look at the users of the role.
delete_role_response_unchecked(current_user, role_id) ==
    IF ~\E r \in sys_role : r.id = role_id
    THEN Response(404, "role does not exist", "")
    ELSE IF /\ flush_first = "SysPermission.roles"
            /\ permissions(role_id) # {}
    THEN Response(500, "IntegrityError", "")
    ELSE Response(200, "role deleted", "")

\* DELETE /api/roles/{role_id}: no permission is checked.  The rows of
\* rel_role_permission go with the role (ON DELETE CASCADE).  Those of
\* role_permission_association have no cascade: the unit of work deletes
\* them where SysRole.permissions is the relationship it flushes, and
\* elsewhere the DELETE of the role fails on them and the handler does not
\* catch the error.
delete_role_response(current_user, role_id) ==
    IF ~\E r \in sys_role : r.id = role_id
    THEN Response(404, "role does not exist", "")
    ELSE IF role_users(role_id) # {}
    THEN Response(400, "the role still has users", "")
    ELSE IF /\ flush_first = "SysPermission.roles"
            /\ permissions(role_id) # {}
    THEN Response(500, "IntegrityError", "")
    ELSE Response(200, "role deleted", "")

delete_role(current_user, role_id) ==
    IF delete_role_response(current_user, role_id).status # 200
    THEN UNCHANGED db
    ELSE /\ sys_role' = {r \in sys_role : r.id # role_id}
         /\ user_role_association' =
                {a \in user_role_association : a[2] # role_id}
         /\ rel_role_permission' = {a \in rel_role_permission : a[1] # role_id}
         /\ role_permission_association' =
                {a \in role_permission_association : a[1] # role_id}
         /\ UNCHANGED <<sys_user, sys_department, sys_page, sys_permission,
                        sys_order, next_id, flush_first>>

----------------------------------------------------------------------------
\* POST /api/permissions: the tuple check_permission returns is tested for
\* truth as a whole.

create_permission_response(current_user, permission_code, permission_name, page_id) ==
    IF ~bool_tuple(check_permission(current_user, "permission:create"))
    THEN Response(403, "forbidden, permission required: ", "permission:create")
    ELSE IF \E p \in sys_permission : p.permission_code = permission_code
    THEN Response(400, "permission code exists", "")
    ELSE IF page_id \notin sys_page
    THEN Response(400, "page does not exist", "")
    ELSE Response(200, "permission created", "")

create_permission(current_user, permission_code, permission_name, page_id) ==
    LET new_id == next_id.sys_permission
    IN  IF create_permission_response(current_user, permission_code,
                                      permission_name, page_id).status # 200
        THEN UNCHANGED db
        ELSE /\ sys_permission' = sys_permission \cup
                    {[id |-> new_id, permission_code |-> permission_code,
                      permission_name |-> permission_name, page_id |-> page_id]}
             /\ next_id' = [next_id EXCEPT !.sys_permission = new_id + 1]
             /\ UNCHANGED <<sys_user, user_role_association, sys_role,
                            sys_department, sys_page, rel_role_permission,
                            role_permission_association, sys_order, flush_first>>

----------------------------------------------------------------------------
\* POST /api/permissions/roles/{role_id}/assign
\*
\* `db_role.permissions = permissions` replaces the collection loaded through
\* SysRole.permissions (role_permission_association).  SysRole.permissions and
\* SysPermission.roles are paired by back_populates but name two different
\* secondary tables; the flush emits the removed and added association rows
\* once, through whichever of the two relationships the unit of work
\* processes first: flush_first, which the build of the ORM fixes.  An added
\* row that rel_role_permission already holds fails its primary key, a
\* removed row that it does not hold fails the row count of the DELETE, and
\* the handler catches neither error.

FlushFirst == {"SysRole.permissions", "SysPermission.roles"}

\* An assignment that skips the comparison of the rows found with the ids
\* asked for.
assign_permissions_to_role_response_uncounted(current_user, role_id, permission_ids) ==
    LET result == check_permission(current_user, "role:assign")
        has_permission == result[1]
        permission_name == result[2]
        found == {p \in sys_permission : p.id \in Range(permission_ids)}
        old == {p.id : p \in permissions(role_id)}
        new == {p.id : p \in found}
        removed == {<<role_id, p>> : p \in old \ new}
        added == {<<role_id, p>> : p \in new \ old}
    IN  IF ~has_permission
        THEN Forbidden(permission_name)
        ELSE IF ~\E r \in sys_role : r.id = role_id
        THEN Response(404, "role does not exist", "")
        ELSE IF /\ flush_first = "SysPermission.roles"
                /\ ~(removed \subseteq rel_role_permission)
        THEN Response(500, "StaleDataError", "")
        ELSE IF /\ flush_first = "SysPermission.roles"
                /\ added \cap rel_role_permission # {}
        THEN Response(500, "IntegrityError", "")
        ELSE Response(200, "permissions assigned", "")

assign_permissions_to_role_response(current_user, role_id, permission_ids) ==
    LET result == check_permission(current_user, "role:assign")
        has_permission == result[1]
        permission_name == result[2]
        found == {p \in sys_permission : p.id \in Range(permission_ids)}
        old == {p.id : p \in permissions(role_id)}
        new == {p.id : p \in found}
        removed == {<<role_id, p>> : p \in old \ new}
        added == {<<role_id, p>> : p \in new \ old}
    IN  IF ~has_permission
        THEN Forbidden(permission_name)
        ELSE IF ~\E r \in sys_role : r.id = role_id
        THEN Response(404, "role does not exist", "")
        ELSE IF Cardinality(found) # Len(permission_ids)
        THEN Response(400, "some permissions do not exist", "")
        ELSE IF /\ flush_first = "SysPermission.roles"
                /\ ~(removed \subseteq rel_role_permission)
        THEN Response(500, "StaleDataError", "")
        ELSE IF /\ flush_first = "SysPermission.roles"
                /\ added \cap rel_role_permission # {}
        THEN Response(500, "IntegrityError", "")
        ELSE Response(200, "permissions assigned", "")

assign_permissions_to_role(current_user, role_id, permission_ids) ==
    LET found == {p \in sys_permission : p.id \in Range(permission_ids)}
        old == {p.id : p \in permissions(role_id)}
        new == {p.id : p \in found}
        removed == {<<role_id, p>> : p \in old \ new}
        added == {<<role_id, p>> : p \in new \ old}
    IN  IF assign_permissions_to_role_response(current_user, role_id,
                                               permission_ids).status # 200
        THEN UNCHANGED db
        ELSE IF flush_first = "SysRole.permissions"
        THEN /\ role_permission_association' =
                    (role_permission_association \ removed) \cup added
             /\ UNCHANGED <<sys_user, user_role_association, sys_role,
                            sys_department, sys_page, sys_permission,
                            rel_role_permission, sys_order, next_id, flush_first>>
        ELSE /\ rel_role_permission' = (rel_role_permission \ removed) \cup added
             /\ UNCHANGED <<sys_user, user_role_association, sys_role,
                            sys_department, sys_page, sys_permission,
                            role_permission_association, sys_order, next_id,
                            flush_first>>

----------------------------------------------------------------------------
\* Strings of the order module are sequences of characters: the decimal
\* digits 0..9 and one character that is not a digit.

NonDigit == 10

IsDigits(s) == \A i \in DOMAIN s : s[i] \in 0..9

\* Python's s[-3:]
last3(s) == IF Len(s) <= 3 THEN s ELSE SubSeq(s, Len(s) - 2, Len(s))

\* SQL substr(s, 1, 8)
substr8(s) == IF Len(s) <= 8 THEN s ELSE SubSeq(s, 1, 8)

\* Python's int(s) on a string of decimal digits.
RECURSIVE int(_)
int(s) == IF Len(s) = 0 THEN 0
          ELSE 10 * int(SubSeq(s, 1, Len(s) - 1)) + s[Len(s)]

\* Python's str(n) for n >= 0.
RECURSIVE str_int(_)
str_int(n) == IF n < 10 THEN <<n>> ELSE str_int(n \div 10) \o <<n % 10>>

\* Python's s.zfill(width)
RECURSIVE zfill(_, _)
zfill(s, width) == IF Len(s) >= width THEN s ELSE zfill(<<0>> \o s, width)

\* The order of ORDER BY order_number on strings.
RECURSIVE str_less(_, _)
str_less(a, b) ==
    IF Len(b) = 0 THEN FALSE
    ELSE IF Len(a) = 0 THEN TRUE
    ELSE IF a[1] # b[1] THEN a[1] < b[1]
    ELSE str_less(Tail(a), Tail(b))

\* A sequencer that forgets to add one.
generate_order_number_no_increment(today) ==
    LET rows == {o \in sys_order : substr8(o.order_number) = today}
        max_order == CHOOSE o \in rows :
                        \A x \in rows : ~str_less(o.order_number, x.order_number)
    IN  IF rows # {}
        THEN IF IsDigits(last3(max_order.order_number))
             THEN [ok |-> TRUE,
                   order_number |->
                       today \o zfill(str_int(int(last3(max_order.order_number))), 3)]
             ELSE [ok |-> FALSE, order_number |-> <<>>]
        ELSE [ok |-> TRUE, order_number |-> today \o zfill(str_int(1), 3)]

\* generate_order_number(db): today is datetime.now().strftime('%Y%m%d').
\* The result is the order number, or the ValueError int() raises.
generate_order_number(today) ==
    LET rows == {o \in sys_order : substr8(o.order_number) = today}
        max_order == CHOOSE o \in rows :
                        \A x \in rows : ~str_less(o.order_number, x.order_number)
    IN  IF rows # {}
        THEN IF IsDigits(last3(max_order.order_number))
             THEN [ok |-> TRUE,
                   order_number |->
                       today \o zfill(str_int(int(last3(max_order.order_number)) + 1), 3)]
             ELSE [ok |-> FALSE, order_number |-> <<>>]
        ELSE [ok |-> TRUE, order_number |-> today \o zfill(str_int(1), 3)]

\* GET /api/order/next-order-number: the handler repeats the computation of
\* generate_order_number and turns any exception into the 500.
get_next_order_number(current_user, today) ==
    LET rows == {o \in sys_order : substr8(o.order_number) = today}
        max_order == CHOOSE o \in rows :
                        \A x \in rows : ~str_less(o.order_number, x.order_number)
        next_seq == IF rows # {} THEN int(last3(max_order.order_number)) + 1 ELSE 1
    IN  IF rows # {} /\ ~IsDigits(last3(max_order.order_number))
        THEN [status |-> 500, order_number |-> <<>>]
        ELSE [status |-> 200, order_number |-> today \o zfill(str_int(next_seq), 3)]

\* datetime.now().strftime('%Y%m%d'): the clock counts minutes from the
\* midnight that begins 2025-01-01.
strftime(t) == <<2, 0, 2, 5, 0, 1, 0, 1 + (t \div 1440)>>

\* sys_order.order_number is String(11): a longer value fails the INSERT
\* (MySQL in its default strict mode).
insertable(item) == Len(item.order_number) <= 11

\* A handler that refuses an order number the table already holds.
create_order_item_unique_number(current_user, is_batch, items) ==
    IF \E i \in DOMAIN items : ~insertable(items[i])
    THEN Response(400, "create failed", "")
    ELSE IF \E i \in DOMAIN items, o \in sys_order :
                o.order_number = items[i].order_number
    THEN Response(400, "order number exists", "")
    ELSE Response(200, IF is_batch THEN "batch created" ELSE "order item created",
                  "")

\* POST /api/order: no permission is checked; every row of the request is
\* added to the session and written by one db.commit(); any exception rolls
\* the whole request back.
create_order_item_response(current_user, is_batch, items) ==
    IF \E i \in DOMAIN items : ~insertable(items[i])
    THEN Response(400, "create failed", "")
    ELSE Response(200, IF is_batch THEN "batch created" ELSE "order item created",
                  "")

\* A handler that skips the items it cannot insert and commits the others.
create_order_item_skips_failed(current_user, is_batch, items) ==
    LET good == SelectSeq(items, insertable)
        first_id == next_id.sys_order
    IN  /\ sys_order' = sys_order \cup
               {[id |-> first_id + i - 1,
                 order_number |-> good[i].order_number] : i \in DOMAIN good}
        /\ next_id' = [next_id EXCEPT !.sys_order = first_id + Len(good)]
        /\ UNCHANGED <<sys_user, user_role_association, sys_role,
                       sys_department, sys_page, sys_permission,
                       rel_role_permission, role_permission_association,
                       flush_first>>

create_order_item(current_user, is_batch, items) ==
    LET first_id == next_id.sys_order
    IN  IF create_order_item_response(current_user, is_batch, items).status # 200
        THEN UNCHANGED db
        ELSE /\ sys_order' = sys_order \cup
                    {[id |-> first_id + i - 1,
                      order_number |-> items[i].order_number] : i \in DOMAIN items}
             /\ next_id' = [next_id EXCEPT !.sys_order = first_id + Len(items)]
             /\ UNCHANGED <<sys_user, user_role_association, sys_role,
                            sys_department, sys_page, sys_permission,
                            rel_role_permission, role_permission_association,
                            flush_first>>

----------------------------------------------------------------------------
\* The identity token: a JWT is its payload, a dict, and whether it is well
\* formed and carries a signature made with SECRET_KEY.

ACCESS_TOKEN_EXPIRE_MINUTES == 30

\* Python's dict.get(key)
get(payload, key) == IF key \in DOMAIN payload THEN payload[key] ELSE None

has(payload, key) == key \in DOMAIN payload

\* create_access_token(data, expires_delta): a timedelta of zero and None are
\* both false in `if expires_delta`.
create_access_token(data, expires_delta) ==
    LET expire == IF expires_delta # 0
                  THEN now + expires_delta
                  ELSE now + ACCESS_TOKEN_EXPIRE_MINUTES
    IN  [signed |-> TRUE,
         payload |-> [k \in DOMAIN data \cup {"exp"} |->
                         IF k = "exp" THEN expire ELSE data[k]]]

\* A decoder that does not look at the exp claim.
decode_raises_ignores_exp(token) == ~token.signed

\* jwt.decode(token, SECRET_KEY, algorithms=[ALGORITHM]) raises JWTError for a
\* token it cannot verify and for one whose exp lies before the current time.
decode_raises(token) ==
    \/ ~token.signed
    \/ has(token.payload, "exp") /\ token.payload["exp"] < now

\* get_current_user(credentials, db): the account of the token, or the 401.
get_current_user(token) ==
    IF decode_raises(token)
    THEN [status |-> 401, detail |-> "invalid token", user |-> 0]
    ELSE IF ~has(token.payload, "user_id")
    THEN [status |-> 401, detail |-> "invalid token", user |-> 0]
    ELSE IF ~\E u \in sys_user : u.id = token.payload["user_id"]
    THEN [status |-> 401, detail |-> "user does not exist", user |-> 0]
    ELSE [status |-> 200, detail |-> "", user |-> token.payload["user_id"]]

\* POST /api/auth/login: password_ok is verify_password's answer.
login_response(username, password_ok) ==
    IF ~\E u \in sys_user : u.username = username
    THEN Response(401, "wrong account or password", "")
    ELSE IF ~password_ok
    THEN Response(401, "wrong account or password", "")
    ELSE Response(200, "logged in", "")

login(username, password_ok) ==
    LET db_user == CHOOSE u \in sys_user : u.username = username
    IN  /\ UNCHANGED db
        /\ IF login_response(username, password_ok).status # 200
           THEN UNCHANGED bearer
           ELSE bearer' =
                  [token |-> create_access_token(
                                 [sub |-> db_user.username, user_id |-> db_user.id],
                                 ACCESS_TOKEN_EXPIRE_MINUTES),
                   issued_at |-> now, by_login |-> TRUE]

----------------------------------------------------------------------------
\* ExcelParser: the rows after the header.  A cell value is None, a number
\* or a string; text is str(value), as a sequence of characters.

NoneCell == [type |-> "NoneType", text |-> <<"N", "o", "n", "e">>]

StrCell(text) == [type |-> "str", text |-> text]

IntCell(text) == [type |-> "int", text |-> text]

\* Python's truth value of a cell value.
bool(value) ==
    CASE value.type = "NoneType" -> FALSE
      [] value.type = "int" -> value.text # <<"0">>
      [] OTHER -> value.text # <<>>

isspace(ch) == ch \in {" ", "\n", "\r", "\t"}

RECURSIVE lstrip(_)
lstrip(text) ==
    IF text # <<>> /\ isspace(Head(text)) THEN lstrip(Tail(text)) ELSE text

RECURSIVE rstrip(_)
rstrip(text) ==
    IF text # <<>> /\ isspace(text[Len(text)])
    THEN rstrip(SubSeq(text, 1, Len(text) - 1))
    ELSE text

strip(text) == lstrip(rstrip(text))

\* re.sub(r'\s+', ' ', text)
RECURSIVE sub_spaces(_)
sub_spaces(text) ==
    IF text = <<>>
    THEN <<>>
    ELSE IF isspace(Head(text))
    THEN <<" ">> \o sub_spaces(lstrip(text))
    ELSE <<Head(text)>> \o sub_spaces(Tail(text))

\* The full-width brackets U+FF08 and U+FF09 become "(" and ")"; "[(]"
\* and "[)]" stand for the full-width characters.
replace_brackets(text) ==
    [i \in DOMAIN text |->
        CASE text[i] = "[(]" -> "("
          [] text[i] = "[)]" -> ")"
          [] OTHER -> text[i]]

normalize_text(text) ==
    IF text = <<>> THEN text ELSE strip(sub_spaces(replace_brackets(text)))

\* sum(1 for v in row_values if v is not None and str(v).strip())
non_empty_count(row_values) ==
    Cardinality({c \in DOMAIN row_values :
                    /\ row_values[c] # NoneCell
                    /\ strip(row_values[c].text) # <<>>})

\* d with d[key] = value
setitem(d, key, value) ==
    [k \in DOMAIN d \cup {key} |-> IF k = key THEN value ELSE d[k]]

\* The record of a data row: row_data[field_name] = cell_value for every
\* mapped column, the cell's normalized text or None.
row_data(row, column_index_map) ==
    [field_name \in {column_index_map[c] : c \in DOMAIN column_index_map} |->
        LET col_idx == CHOOSE c \in DOMAIN column_index_map :
                          column_index_map[c] = field_name
            cell_value == row[col_idx]
        IN  IF cell_value # NoneCell
            THEN StrCell(normalize_text(cell_value.text))
            ELSE NoneCell]

\* A record whose only fields are project_name / component / location,
\* being excluded: does it hold anything else that is not None?
has_real_data(item) ==
    \E key \in DOMAIN item :
        /\ key \notin {"project_name", "component", "location"}
        /\ item[key] # NoneCell

\* if key in metadata and key not in row_data: row_data[key] = metadata[key],
\* for project_name and then for component.
add_metadata(d, metadata) ==
    LET with_project == IF "project_name" \in DOMAIN metadata
                           /\ "project_name" \notin DOMAIN d
                        THEN setitem(d, "project_name", metadata["project_name"])
                        ELSE d
    IN  IF "component" \in DOMAIN metadata /\ "component" \notin DOMAIN with_project
        THEN setitem(with_project, "component", metadata["component"])
        ELSE with_project

\* One turn of the loop over the rows after the header.
parse_row(p) ==
    LET row == p.worksheet[p.row_idx]
        found == {c \in DOMAIN row : bool(row[c]) /\ strip(row[c].text) # <<>>}
        first == CHOOSE c \in found : \A d \in found : c <= d
        with_metadata == add_metadata(row_data(row, p.column_index_map), p.metadata)
        with_location == IF bool(p.current_location)
                            /\ "location" \notin DOMAIN with_metadata
                         THEN setitem(with_metadata, "location", p.current_location)
                         ELSE with_metadata
    IN  IF non_empty_count(row) = 1
        THEN [p EXCEPT !.current_location =
                            IF found # {}
                            THEN StrCell(normalize_text(row[first].text))
                            ELSE @,
                       !.row_idx = @ + 1]
        ELSE [p EXCEPT !.data_list = IF DOMAIN with_location # {}
                                     THEN Append(@, with_location) ELSE @,
                       !.row_idx = @ + 1]

----------------------------------------------------------------------------
\* ExcelParser: the header texts.  A text is a sequence of characters; a
\* character outside ASCII is written by its code point ("U+56FE"), and
\* "[(]" and "[)]" stand for the full-width brackets.

\* COLUMN_MAPPING, in the order of the dict.
COLUMN_MAPPING ==
    <<
      <<<<"U+9879", "U+76EE", "U+540D", "U+79F0">>, "project_name">>,
      <<<<"U+6784", "U+4EF6">>, "component">>,
      <<<<"U+90E8", "U+4F4D">>, "location">>,
      <<<<"U+6784", "U+4EF6", "U+540D", "U+79F0">>, "component_name">>,
      <<<<"U+7F16", "U+53F7">>, "number">>,
      <<<<"U+7EA7", "U+76F4", "\n", "U+522B", "U+5F84">>, "level_diameter">>,
      <<<<"U+7EA7", "U+522B", "U+76F4", "U+5F84">>, "level_diameter">>,
      <<<<"U+94A2", " ", "U+7B4B", " ", "U+7B80", " ", "U+56FE">>, "rebar_sketch">>,
      <<<<"U+94A2", "U+7B4B", "U+7B80", "U+56FE">>, "rebar_sketch">>,
      <<<<"U+56FE", "U+5F62", "U+4FE1", "U+606F">>, "graph_info">>,
      <<<<"U+8FB9", "U+89D2", "U+7ED3", "U+6784">>, "edge_structure">>,
      <<<<"U+4E0B", "U+6599", "\n", "(", "m", "m", ")">>, "cutting_length_mm">>,
      <<<<"U+4E0B", "U+6599", "\r", "\n", "(", "m", "m", ")">>, "cutting_length_mm">>,
      <<<<"U+4E0B", "U+6599", "(", "m", "m", ")">>, "cutting_length_mm">>,
      <<<<"U+6839", " ", "U+4EF6", "\n", "U+6570", "*", "U+6570">>, "quantity_pieces">>,
      <<<<"U+6839", " ", "U+4EF6", "\r", "\n", "U+6570", "*", "U+6570">>, "quantity_pieces">>,
      <<<<"U+6839", "U+6570", "*", "U+4EF6", "U+6570">>, "quantity_pieces">>,
      <<<<"U+603B", "\n", "U+6839", " ", "U+6570">>, "total_quantity">>,
      <<<<"U+603B", "\r", "\n", "U+6839", " ", "U+6570">>, "total_quantity">>,
      <<<<"U+603B", "U+6839", "U+6570">>, "total_quantity">>,
      <<<<"U+91CD", "U+91CF", "\n", "(", "k", "g", ")">>, "weight_kg">>,
      <<<<"U+91CD", "U+91CF", "\r", "\n", "(", "k", "g", ")">>, "weight_kg">>,
      <<<<"U+91CD", "U+91CF", "(", "k", "g", ")">>, "weight_kg">>,
      <<<<"U+5907", "U+6CE8">>, "remark">>,
      <<<<"U+7F16", " ", "U+53F7">>, "number">>,
      <<<<"U+7EA7", " ", "U+522B", " ", "U+76F4", " ", "U+5F84">>, "level_diameter">>,
      <<<<"U+94A2", "U+7B4B", " ", "U+7B80", " ", "U+56FE">>, "rebar_sketch">>,
      <<<<"U+8FB9", " ", "U+89D2", " ", "U+7ED3", " ", "U+6784">>, "edge_structure">>,
      <<<<"U+4E0B", " ", "U+6599", "(", "m", "m", ")">>, "cutting_length_mm">>,
      <<<<"U+6839", "U+6570", " ", "U+4EF6", "U+6570">>, "quantity_pieces">>,
      <<<<"U+6839", " ", "U+6570", "*", "U+4EF6", " ", "U+6570">>, "quantity_pieces">>,
      <<<<"U+603B", "U+6839", " ", "U+6570">>, "total_quantity">>,
      <<<<"U+91CD", " ", "U+91CF", "(", "k", "g", ")">>, "weight_kg">>
    >>

in_COLUMN_MAPPING(text) == \E i \in DOMAIN COLUMN_MAPPING : COLUMN_MAPPING[i][1] = text

\* COLUMN_MAPPING[text]
field_name_of(text) ==
    COLUMN_MAPPING[CHOOSE i \in DOMAIN COLUMN_MAPPING : COLUMN_MAPPING[i][1] = text][2]

startswith(text, prefix) ==
    Len(prefix) <= Len(text) /\ SubSeq(text, 1, Len(prefix)) = prefix

\* text.replace(old, new), old not empty
RECURSIVE replace(_, _, _)
replace(text, old, new) ==
    IF text = <<>>
    THEN <<>>
    ELSE IF startswith(text, old)
    THEN new \o replace(SubSeq(text, Len(old) + 1, Len(text)), old, new)
    ELSE <<Head(text)>> \o replace(Tail(text), old, new)

\* sub in text
contains(text, sub) ==
    \E i \in 1..(Len(text) - Len(sub) + 1) : SubSeq(text, i, i + Len(sub) - 1) = sub

\* The four characters of the graph-info header.
GraphInfo == <<"U+56FE", "U+5F62", "U+4FE1", "U+606F">>

is_graph_info_header(text) ==
    IF text = <<>>
    THEN FALSE
    ELSE startswith(replace(replace(replace(text, <<" ">>, <<>>), <<"\n">>, <<>>),
                            <<"\r">>, <<>>),
                    GraphInfo)

\* The first key of COLUMN_MAPPING, in dict order, among the keys at the
\* positions hits, or otherwise when there is none.
first_key(hits, otherwise) ==
    IF hits = {}
    THEN otherwise
    ELSE COLUMN_MAPPING[CHOOSE i \in hits : \A j \in hits : i <= j][1]

extract_column_name(header) ==
    LET normalized == replace(header, <<"\r", "\n">>, <<"\n">>)
        no_space == replace(normalized, <<" ">>, <<>>)
        normalized_no_space == replace(no_space, <<"\n">>, <<>>)
        same_no_space ==
            {i \in DOMAIN COLUMN_MAPPING :
                replace(COLUMN_MAPPING[i][1], <<" ">>, <<>>) = no_space}
        same_no_space_no_newline ==
            {i \in DOMAIN COLUMN_MAPPING :
                replace(replace(COLUMN_MAPPING[i][1], <<" ">>, <<>>), <<"\n">>, <<>>)
                    = normalized_no_space}
    IN  IF header = <<>>
        THEN <<>>
        ELSE IF is_graph_info_header(normalized)
        THEN GraphInfo
        ELSE IF in_COLUMN_MAPPING(normalized)
        THEN normalized
        ELSE first_key(same_no_space,
                       first_key(same_no_space_no_newline, normalized))

\* key_fields of find_header_row.
key_fields ==
    <<
      <<"U+9879", "U+76EE", "U+540D", "U+79F0">>,
      <<"U+7F16", "U+53F7">>,
      <<"U+7EA7", "U+522B", "U+76F4", "U+5F84">>,
      <<"U+7EA7", "U+76F4", "U+522B", "U+5F84">>,
      <<"U+94A2", "U+7B4B", "U+7B80", "U+56FE">>,
      <<"U+8FB9", "U+89D2", "U+7ED3", "U+6784">>,
      <<"U+4E0B", "U+6599">>,
      <<"U+6839", "U+6570">>,
      <<"U+603B", "U+6839">>,
      <<"U+91CD", "U+91CF">>
    >>

\* ':' and the full-width colon.
Colon == ":"

WideColon == "U+FF1A"

\* parts = text.split(sep, 1); parts[1]
after_first(text, sep) ==
    LET i == CHOOSE k \in 1..Len(text) :
                 text[k] = sep /\ \A j \in 1..(k - 1) : text[j] # sep
    IN  SubSeq(text, i + 1, Len(text))

\* The result is a text, or None for an empty cell text.
extract_value_after_colon(text) ==
    IF text = <<>>
    THEN NoneCell
    ELSE IF \E k \in DOMAIN text : text[k] = WideColon
    THEN StrCell(normalize_text(after_first(text, WideColon)))
    ELSE IF \E k \in DOMAIN text : text[k] = Colon
    THEN StrCell(normalize_text(after_first(text, Colon)))
    ELSE StrCell(normalize_text(text))

\* column_index_map[idx] of parse_excel for a header cell: the field the column
\* feeds, or None when the column feeds none.
column_field(cell) ==
    LET header == IF bool(cell) THEN extract_column_name(cell.text) ELSE <<>>
    IN  IF header # <<>> /\ in_COLUMN_MAPPING(header)
        THEN field_name_of(header)
        ELSE None

\* One cell of find_header_row: whether it adds to matched_count.
matches_key_field(cell) ==
    LET cell_value == IF bool(cell) THEN cell.text ELSE <<>>
        normalized == replace(replace(cell_value, <<"\r", "\n">>, <<"\n">>), <<" ">>, <<>>)
        key_normalized(key_field) == replace(replace(key_field, <<" ">>, <<>>), <<"\n">>, <<>>)
    IN  /\ cell_value # <<>>
        /\ cell_value # <<"N", "o", "n", "e">>
        /\ \E k \in DOMAIN key_fields :
              \/ contains(normalized, key_normalized(key_fields[k]))
              \/ contains(key_normalized(key_fields[k]), normalized)

RECURSIVE matched_count(_)
matched_count(row_values) ==
    IF row_values = <<>>
    THEN 0
    ELSE (IF matches_key_field(Head(row_values)) THEN 1 ELSE 0)
         + matched_count(Tail(row_values))

\* iter_rows(min_row=1, max_row=15)
max_row == 15

\* The row of the worksheet; a row past the last one has no values.
iter_row(worksheet, row_idx) ==
    IF row_idx <= Len(worksheet) THEN worksheet[row_idx] ELSE <<>>

is_header_row_at_two(row_values) == matched_count(row_values) >= 2

is_header_row(row_values) == matched_count(row_values) >= 3

RECURSIVE find_header_row_from(_, _)
find_header_row_from(worksheet, row_idx) ==
    IF row_idx > max_row
    THEN 1
    ELSE IF is_header_row(iter_row(worksheet, row_idx))
    THEN row_idx
    ELSE find_header_row_from(worksheet, row_idx + 1)

find_header_row(worksheet) == find_header_row_from(worksheet, 1)

\* The parser before a file is handed to it.
NoSheet ==
    [pc |-> "rows", worksheet |-> <<>>, column_index_map |-> <<>>,
     metadata |-> <<>>, row_idx |-> 1, current_location |-> NoneCell,
     data_list |-> <<>>, filtered_data |-> <<>>]

----------------------------------------------------------------------------
\* The database as it is when the service starts: an administrator whose
\* role is granted role:assign.

Username(i) == <<"user", i>>

IdCard(i) == <<"card", i>>

RoleName(i) == <<"role", i>>

NoBearer ==
    [token |-> [signed |-> FALSE, payload |-> <<>>], issued_at |-> 0,
     by_login |-> FALSE]

\* The two clients that import batches.
Clients == {"c1", "c2"}

\* An importing client: what it has read from next-order-number, how many
\* order rows had been written when it read, the items it has POSTed, the
\* AUTO_INCREMENT value of sys_order when it POSTed them, and how the POST
\* ended.
Idle == [pc |-> "idle", order_number |-> <<>>, today |-> <<>>, seen |-> 0,
         items |-> <<>>, first_id |-> 0, status |-> 0]

InitEnv ==
    /\ now = 0
    /\ bearer = NoBearer
    /\ client = [c \in Clients |-> Idle]
    /\ parser = NoSheet

InitGraph ==
    /\ sys_user = {[id |-> 1, username |-> Username(1), id_card |-> IdCard(1),
                    department_id |-> 1]}
    /\ user_role_association = {<<1, 1>>}
    /\ sys_role = {[id |-> 1, role_name |-> RoleName(1)]}
    /\ sys_department = {[id |-> 1, department_name |-> "dept1", parent_id |-> NoId]}
    /\ sys_page = {1}
    /\ sys_permission = {[id |-> 1, permission_code |-> "role:assign",
                          permission_name |-> DisplayName("role:assign"),
                          page_id |-> 1]}
    /\ rel_role_permission = {<<1, 1>>}
    /\ role_permission_association \in {{}, {<<1, 1>>}}
    /\ sys_order = {}
    /\ next_id = [sys_user |-> 2, sys_role |-> 2, sys_permission |-> 2,
                  sys_order |-> 1, sys_department |-> 2]
    /\ flush_first \in FlushFirst

Init == InitGraph /\ InitEnv

\* get_current_user hands the handler an existing account.
Principals == {u.id : u \in sys_user}

\* Codes of the permissions a caller creates.
NewCodes == {"user:create", "permission:create"}

DoCreateUser ==
    \E u \in Principals, role_ids \in SeqsUpTo(RoleIds, 1) :
        /\ next_id.sys_user <= MaxUser
        /\ create_user(u, Username(next_id.sys_user), IdCard(next_id.sys_user),
                       1, role_ids)
        /\ UNCHANGED env

DoCreateRole ==
    \E u \in Principals :
        /\ next_id.sys_role <= MaxRole
        /\ create_role(u, RoleName(next_id.sys_role))
        /\ UNCHANGED env

DoCreatePermission ==
    \E u \in Principals, code \in NewCodes :
        /\ next_id.sys_permission <= MaxPerm
        /\ create_permission(u, code, DisplayName(code), 1)
        /\ UNCHANGED env

DoAssign ==
    \E u \in Principals, role_id \in RoleIds, permission_ids \in IdLists(PermIds) :
        /\ assign_permissions_to_role(u, role_id, permission_ids)
        /\ UNCHANGED env

Next ==
    \/ DoCreateUser
    \/ DoCreateRole
    \/ DoCreatePermission
    \/ DoAssign

Spec == Init /\ [][Next]_vars

----------------------------------------------------------------------------
\* The token codec over time: logins, forged tokens, the clock, and an
\* administrator who deletes accounts.

MaxTime == 32

InitToken ==
    /\ sys_user = {[id |-> i, username |-> Username(i), id_card |-> IdCard(i),
                    department_id |-> 1] : i \in 1..2}
    /\ user_role_association = {<<1, 1>>}
    /\ sys_role = {[id |-> 1, role_name |-> RoleName(1)]}
    /\ sys_department = {[id |-> 1, department_name |-> "dept1", parent_id |-> NoId]}
    /\ sys_page = {1}
    /\ sys_permission = {[id |-> 1, permission_code |-> "user:delete",
                          permission_name |-> DisplayName("user:delete"),
                          page_id |-> 1]}
    /\ rel_role_permission = {<<1, 1>>}
    /\ role_permission_association = {<<1, 1>>}
    /\ sys_order = {}
    /\ next_id = [sys_user |-> 3, sys_role |-> 2, sys_permission |-> 2,
                  sys_order |-> 1, sys_department |-> 2]
    /\ flush_first \in FlushFirst
    /\ InitEnv

\* Tokens not made by create_access_token: unsigned ones with any payload,
\* and signed ones that lack a claim.
OtherTokens ==
    {[signed |-> FALSE, payload |-> [user_id |-> 1, exp |-> MaxTime]],
     [signed |-> TRUE, payload |-> [sub |-> Username(1), exp |-> MaxTime]],
     [signed |-> TRUE, payload |-> [user_id |-> 2]]}

Tick ==
    /\ now < MaxTime
    /\ now' = now + 1
    /\ UNCHANGED <<db, bearer, client, parser>>

DoLogin ==
    \E i \in 1..2, password_ok \in BOOLEAN :
        /\ login(Username(i), password_ok)
        /\ UNCHANGED <<now, client, parser>>

DoPresentOther ==
    \E t \in OtherTokens :
        /\ bearer' = [token |-> t, issued_at |-> now, by_login |-> FALSE]
        /\ UNCHANGED <<db, now, client, parser>>

DoDeleteUser ==
    \E u \in Principals, user_id \in 1..2 :
        /\ delete_user(u, user_id)
        /\ UNCHANGED env

NextToken ==
    \/ Tick
    \/ DoLogin
    \/ DoPresentOther
    \/ DoDeleteUser

SpecToken == InitToken /\ [][NextToken]_vars

----------------------------------------------------------------------------
\* The order numbers: clients that import a batch read the next number and
\* then POST their rows with it; other callers POST rows with numbers of
\* their own; the date changes at midnight.

MaxOrder == 2

MaxBatch == 2

MaxDay == 1

\* Numbers a caller makes up: a high sequence, and a sequence that is not a
\* number.
OtherNumbers(today) ==
    {today \o <<9, 9, 8>>, today \o <<0, 0, NonDigit>>}

InitOrder ==
    /\ InitGraph
    /\ role_permission_association = {}
    /\ flush_first = "SysPermission.roles"
    /\ InitEnv

\* A peek that reserves the number it returns by storing a row with it.
DoPeekReserves ==
    \E c \in Clients :
        LET r == get_next_order_number(1, strftime(now))
        IN  /\ client[c].pc = "idle"
            /\ r.status = 200
            /\ next_id.sys_order <= MaxOrder
            /\ client' = [client EXCEPT ![c] =
                            [pc |-> "read", order_number |-> r.order_number,
                             today |-> strftime(now),
                             seen |-> next_id.sys_order + 1, items |-> <<>>,
                             first_id |-> 0, status |-> 0]]
            /\ create_order_item(1, FALSE, <<[order_number |-> r.order_number]>>)
            /\ UNCHANGED <<now, bearer, parser>>

DoPeek ==
    \E c \in Clients :
        LET r == get_next_order_number(1, strftime(now))
        IN  /\ client[c].pc = "idle"
            /\ client' = [client EXCEPT ![c] =
                            IF r.status = 200
                            THEN [pc |-> "read", order_number |-> r.order_number,
                                  today |-> strftime(now),
                                  seen |-> next_id.sys_order, items |-> <<>>,
                                  first_id |-> 0, status |-> 0]
                            ELSE [Idle EXCEPT !.status = r.status]]
            /\ UNCHANGED <<db, now, bearer, parser>>

\* The order numbers a client may give the last item of its batch: the one
\* it read, or one it typed over it, which may be too long for the column.
LastNumbers(c) ==
    {client[c].order_number, client[c].today \o <<9, 9, 8>>,
     client[c].today \o <<1, 0, 0, 0>>}

DoImport ==
    \E c \in Clients, n \in 1..MaxBatch :
        \E last \in LastNumbers(c) :
            LET items == [i \in 1..n |->
                            [order_number |-> IF i = n THEN last
                                              ELSE client[c].order_number]]
            IN  /\ client[c].pc = "read"
                /\ next_id.sys_order + n - 1 <= MaxOrder
                /\ create_order_item(1, TRUE, items)
                /\ client' = [client EXCEPT
                                ![c].pc = "done",
                                ![c].items = items,
                                ![c].first_id = next_id.sys_order,
                                ![c].status =
                                    create_order_item_response(1, TRUE,
                                                               items).status]
                /\ UNCHANGED <<now, bearer, parser>>

DoFinish ==
    \E c \in Clients :
        /\ client[c].pc = "done"
        /\ client' = [client EXCEPT ![c] = Idle]
        /\ UNCHANGED <<db, now, bearer, parser>>

DoCreateOrder ==
    \E order_number \in OtherNumbers(strftime(now)) :
        /\ next_id.sys_order <= MaxOrder
        /\ create_order_item(1, FALSE, <<[order_number |-> order_number]>>)
        /\ UNCHANGED env

Midnight ==
    /\ now \div 1440 < MaxDay
    /\ now' = now + 1440
    /\ UNCHANGED <<db, bearer, client, parser>>

NextOrder ==
    \/ DoPeek
    \/ DoImport
    \/ DoFinish
    \/ DoCreateOrder
    \/ Midnight

SpecOrder == InitOrder /\ [][NextOrder]_vars

----------------------------------------------------------------------------
\* The department tree: an administrator who holds the department
\* permissions, user:create and user:update, the accounts the administrator
\* creates (they hold no role), and every one of them creating, updating
\* and deleting departments and moving users between them.

MaxDept == 2

DeptIds == 1..MaxDept

DeptName(i) == "dept" \o ToString(i)

DeptCodes == <<"department:create", "department:update", "department:delete",
               "user:create", "user:update">>

InitDept ==
    /\ sys_user = {[id |-> 1, username |-> Username(1), id_card |-> IdCard(1),
                    department_id |-> 1]}
    /\ user_role_association = {<<1, 1>>}
    /\ sys_role = {[id |-> 1, role_name |-> RoleName(1)]}
    /\ sys_department = {[id |-> 1, department_name |-> DeptName(1),
                          parent_id |-> NoId]}
    /\ sys_page = {1}
    /\ sys_permission = {[id |-> i, permission_code |-> DeptCodes[i],
                          permission_name |-> DisplayName(DeptCodes[i]),
                          page_id |-> 1] : i \in DOMAIN DeptCodes}
    /\ rel_role_permission = {<<1, i>> : i \in DOMAIN DeptCodes}
    /\ role_permission_association = {<<1, i>> : i \in DOMAIN DeptCodes}
    /\ sys_order = {}
    /\ next_id = [sys_user |-> 2, sys_role |-> 2,
                  sys_permission |-> Len(DeptCodes) + 1,
                  sys_order |-> 1, sys_department |-> 2]
    /\ flush_first \in FlushFirst
    /\ InitEnv

DoCreateDepartment ==
    \E u \in Principals, i \in DeptIds, parent_id \in {NoId} \cup DeptIds :
        /\ next_id.sys_department <= MaxDept
        /\ create_department(u, DeptName(i), parent_id)
        /\ UNCHANGED env

DoUpdateDepartment ==
    \E u \in Principals, dept_id \in DeptIds,
       department_name \in {None} \cup {DeptName(i) : i \in DeptIds},
       parent_id \in {NoId} \cup DeptIds :
        /\ update_department(u, dept_id, department_name, parent_id)
        /\ UNCHANGED env

DoDeleteDepartment ==
    \E u \in Principals, dept_id \in DeptIds :
        /\ delete_department(u, dept_id)
        /\ UNCHANGED env

DoHire ==
    \E u \in Principals, department_id \in DeptIds :
        /\ next_id.sys_user <= MaxUser
        /\ create_user(u, Username(next_id.sys_user), IdCard(next_id.sys_user),
                       department_id, <<>>)
        /\ UNCHANGED env

DoTransfer ==
    \E u \in Principals, user_id \in UserIds, department_id \in DeptIds :
        /\ update_user(u, user_id, NoCard, department_id)
        /\ UNCHANGED env

NextDept ==
    \/ DoCreateDepartment
    \/ DoUpdateDepartment
    \/ DoDeleteDepartment
    \/ DoHire
    \/ DoTransfer

SpecDept == InitDept /\ [][NextDept]_vars

----------------------------------------------------------------------------
\* The accounts: an administrator who holds user:create and user:update
\* creates accounts and updates them, and every account updates its own
\* profile.  Usernames and id-card numbers are drawn from a few more values
\* than there are accounts, so that a request can ask for a taken one or
\* for a free one.

Names == 1..(MaxUser + 2)

UserCodes == <<"user:create", "user:update">>

InitUser ==
    /\ sys_user = {[id |-> 1, username |-> Username(1), id_card |-> IdCard(1),
                    department_id |-> 1]}
    /\ user_role_association = {<<1, 1>>}
    /\ sys_role = {[id |-> 1, role_name |-> RoleName(1)]}
    /\ sys_department = {[id |-> 1, department_name |-> DeptName(1),
                          parent_id |-> NoId]}
    /\ sys_page = {1}
    /\ sys_permission = {[id |-> i, permission_code |-> UserCodes[i],
                          permission_name |-> DisplayName(UserCodes[i]),
                          page_id |-> 1] : i \in DOMAIN UserCodes}
    /\ rel_role_permission = {<<1, i>> : i \in DOMAIN UserCodes}
    /\ role_permission_association = {<<1, i>> : i \in DOMAIN UserCodes}
    /\ sys_order = {}
    /\ next_id = [sys_user |-> 2, sys_role |-> 2,
                  sys_permission |-> Len(UserCodes) + 1,
                  sys_order |-> 1, sys_department |-> 2]
    /\ flush_first \in FlushFirst
    /\ InitEnv

DoRegister ==
    \E u \in Principals, i \in Names, j \in Names,
       role_ids \in SeqsUpTo(RoleIds, 1) :
        /\ next_id.sys_user <= MaxUser
        /\ create_user(u, Username(i), IdCard(j), 1, role_ids)
        /\ UNCHANGED env

DoUpdateUser ==
    \E u \in Principals, user_id \in UserIds,
       id_card \in {NoCard} \cup {IdCard(j) : j \in Names} :
        /\ update_user(u, user_id, id_card, NoId)
        /\ UNCHANGED env

DoUpdateProfile ==
    \E u \in Principals, id_card \in {NoCard} \cup {IdCard(j) : j \in Names} :
        /\ update_profile(u, id_card)
        /\ UNCHANGED env

NextUser ==
    \/ DoRegister
    \/ DoUpdateUser
    \/ DoUpdateProfile

SpecUser == InitUser /\ [][NextUser]_vars

----------------------------------------------------------------------------
\* The row extractor: a worksheet of three columns whose header maps the
\* first to number, the second to remark, to project_name or to nothing and
\* the third to location or to nothing, with or without the project name
\* and the component in A2 and G2, parsed row by row and then filtered.  The
\* first column holds any value, the others are empty or hold a string.

MaxRows == 3

CellValues ==
    {NoneCell, IntCell(<<"0">>), StrCell(<<" ">>), StrCell(<<"A", " ">>),
     StrCell(<<"B">>)}

RowValues == CellValues \X {NoneCell, StrCell(<<"B">>)} \X {NoneCell, StrCell(<<"B">>)}

Worksheets == UNION {[1..n -> RowValues] : n \in 1..MaxRows}

ColumnMaps ==
    {<<"number", "remark", "location">>, <<"number", "project_name">>,
     <<"number", "remark">>, <<"number">>}

\* metadata: empty when A2 and G2 are empty.
Metadatas ==
    {<<>>, [k \in {"project_name", "component"} |->
               IF k = "project_name" THEN StrCell(<<"P">>) ELSE StrCell(<<"C">>)]}

InitParse ==
    /\ InitGraph
    /\ role_permission_association = {}
    /\ flush_first = "SysRole.permissions"
    /\ now = 0
    /\ bearer = NoBearer
    /\ client = [c \in Clients |-> Idle]
    /\ \E worksheet \in Worksheets, column_index_map \in ColumnMaps,
          metadata \in Metadatas :
          parser = [NoSheet EXCEPT
                      !.worksheet = worksheet,
                      !.column_index_map = column_index_map,
                      !.metadata = metadata]

ParseRow ==
    /\ parser.pc = "rows"
    /\ parser.row_idx <= Len(parser.worksheet)
    /\ parser' = parse_row(parser)
    /\ UNCHANGED <<db, now, bearer, client>>

FilterData ==
    /\ parser.pc = "rows"
    /\ parser.row_idx > Len(parser.worksheet)
    /\ parser' = [parser EXCEPT
                    !.filtered_data = SelectSeq(parser.data_list, has_real_data),
                    !.pc = "done"]
    /\ UNCHANGED <<db, now, bearer, client>>

NextParse ==
    \/ ParseRow
    \/ FilterData

SpecParse == InitParse /\ [][NextParse]_vars

----------------------------------------------------------------------------
\* The header functions of ExcelParser, each applied to a bounded set of
\* header cells, label cells and worksheets.

KnownHeaders == {COLUMN_MAPPING[i][1] : i \in DOMAIN COLUMN_MAPPING}

\* The renderings of one header: its line breaks as \n, \r\n or \r.
Newlines(text) ==
    LET lf == replace(text, <<"\r", "\n">>, <<"\n">>)
    IN  {lf, replace(lf, <<"\n">>, <<"\r", "\n">>), replace(lf, <<"\n">>, <<"\r">>)}

\* Its spaces kept, removed or doubled, and a space before or after it.
Spacings(text) ==
    {text, replace(text, <<" ">>, <<>>), replace(text, <<" ">>, <<" ", " ">>),
     <<" ">> \o text, text \o <<" ">>}

\* Its brackets ASCII or full-width.
Brackets(text) ==
    {text, replace(replace(text, <<"(">>, <<"[(]">>), <<")">>, <<"[)]">>)}

Variants(text) ==
    UNION {UNION {Brackets(s) : s \in Spacings(n)} : n \in Newlines(text)}

\* Headers that begin with the graph-info characters after leading blanks.
GraphHeaders ==
    {lead \o GraphInfo \o rest :
        lead \in {<<>>, <<" ">>, <<"\n">>, <<"\r">>, <<"\r", "\n">>, <<"\t">>},
        rest \in {<<>>, <<"\n", "U+8BF4", "U+660E">>, <<"A", "B", "C">>, <<"(", "m", "m", ")">>}}

\* Headers of no known column.
OtherHeaders ==
    {<<>>, <<"A">>, <<"A", " ", "B">>, <<"A", "\r", "\n", "B">>,
     <<"U+7F16">>, <<"U+5907", "U+6CE8", "2">>}

Headers == UNION {Variants(k) : k \in KnownHeaders} \cup GraphHeaders \cup OtherHeaders

MaxText == 4

\* Label cells "label: value" over a small alphabet.
LabelChars == {"a", " ", Colon, WideColon}

Labels == UNION {[1..n -> LabelChars] : n \in 0..MaxText}

MaxSheet == 17

Text(s) == StrCell(s)

\* Rows of a worksheet: header rows of three and of four key fields, a row of
\* two key fields, a title row and an empty row.
HeaderRowA ==
    <<Text(<<"U+9879", "U+76EE", "U+540D", "U+79F0">>),
      Text(<<"U+7F16", " ", "U+53F7">>),
      Text(<<"U+4E0B", "U+6599", "\r", "\n", "(", "m", "m", ")">>)>>

HeaderRowB ==
    <<Text(<<"U+6784", "U+4EF6">>),
      Text(<<"U+7F16", "U+53F7">>),
      Text(<<"U+7EA7", "U+522B", "U+76F4", "U+5F84">>),
      NoneCell,
      Text(<<"U+91CD", "U+91CF", "(", "k", "g", ")">>)>>

TwoFieldRow ==
    <<Text(<<"U+7F16", "U+53F7">>), Text(<<"N", "o", "n", "e">>), IntCell(<<"0">>),
      Text(<<"U+91CD", "U+91CF">>), Text(<<"A">>)>>

TitleRow == <<Text(<<"U+9879", "U+76EE", ":", "P">>), NoneCell, NoneCell>>

EmptyRow == <<NoneCell, NoneCell, NoneCell>>

\* A worksheet of n rows with header rows at a and b, where a or b = 0 places
\* none.
Sheet(n, a, b, other) ==
    [r \in 1..n |-> IF r = a THEN HeaderRowA ELSE IF r = b THEN HeaderRowB ELSE other]

HeaderSheets ==
    {Sheet(n, a, b, other) :
        n \in {2, MaxSheet}, a \in 0..MaxSheet, b \in 0..MaxSheet,
        other \in {TwoFieldRow, TitleRow, EmptyRow}}

InitHeader ==
    /\ InitGraph
    /\ role_permission_association = {}
    /\ flush_first = "SysRole.permissions"
    /\ now = 0
    /\ bearer = NoBearer
    /\ client = [c \in Clients |-> Idle]
    /\ \/ \E header \in Headers :
             parser = [pc |-> "extract_column_name", cell |-> Text(header)]
       \/ \E text \in Labels :
             parser = [pc |-> "extract_value_after_colon", text |-> text]
       \/ \E worksheet \in HeaderSheets :
             parser = [pc |-> "find_header_row", worksheet |-> worksheet]

\* headers.append(extract_column_name(str(cell.value))) and the column's entry
\* in column_index_map.
ExtractColumnName ==
    /\ parser.pc = "extract_column_name"
    /\ parser' = [pc |-> "header",
                  cell |-> parser.cell,
                  header |-> extract_column_name(parser.cell.text),
                  field_name |-> column_field(parser.cell)]
    /\ UNCHANGED <<db, now, bearer, client>>

\* extract_column_name applied to a header it returned.
ExtractColumnNameAgain ==
    /\ parser.pc = "header"
    /\ parser' = [pc |-> "header of header",
                  cell |-> parser.cell,
                  header |-> parser.header,
                  again |-> extract_column_name(parser.header)]
    /\ UNCHANGED <<db, now, bearer, client>>

ExtractValueAfterColon ==
    /\ parser.pc = "extract_value_after_colon"
    /\ parser' = [pc |-> "value",
                  text |-> parser.text,
                  value |-> extract_value_after_colon(parser.text)]
    /\ UNCHANGED <<db, now, bearer, client>>

FindHeaderRow ==
    /\ parser.pc = "find_header_row"
    /\ parser' = [pc |-> "header_row_idx",
                  worksheet |-> parser.worksheet,
                  header_row_idx |-> find_header_row(parser.worksheet)]
    /\ UNCHANGED <<db, now, bearer, client>>

NextHeader ==
    \/ ExtractColumnName
    \/ ExtractColumnNameAgain
    \/ ExtractValueAfterColon
    \/ FindHeaderRow

SpecHeader == InitHeader /\ [][NextHeader]_vars

----------------------------------------------------------------------------
\* Roles and their holders: an administrator who holds user:create and
\* user:delete, roles created and deleted by anyone, accounts created with
\* lists of role ids and deleted again.

RoleCodes == <<"user:create", "user:delete">>

InitRole ==
    /\ sys_user = {[id |-> 1, username |-> Username(1), id_card |-> IdCard(1),
                    department_id |-> 1]}
    /\ user_role_association = {<<1, 1>>}
    /\ sys_role = {[id |-> 1, role_name |-> RoleName(1)]}
    /\ sys_department = {[id |-> 1, department_name |-> DeptName(1),
                          parent_id |-> NoId]}
    /\ sys_page = {1}
    /\ sys_permission = {[id |-> i, permission_code |-> RoleCodes[i],
                          permission_name |-> DisplayName(RoleCodes[i]),
                          page_id |-> 1] : i \in DOMAIN RoleCodes}
    /\ rel_role_permission = {<<1, i>> : i \in DOMAIN RoleCodes}
    /\ role_permission_association = {<<1, i>> : i \in DOMAIN RoleCodes}
    /\ sys_order = {}
    /\ next_id = [sys_user |-> 2, sys_role |-> 2,
                  sys_permission |-> Len(RoleCodes) + 1,
                  sys_order |-> 1, sys_department |-> 2]
    /\ flush_first \in FlushFirst
    /\ InitEnv

DoDeleteRole ==
    \E u \in Principals, role_id \in RoleIds :
        /\ delete_role(u, role_id)
        /\ UNCHANGED env

DoEnroll ==
    \E u \in Principals, role_ids \in IdLists(RoleIds) :
        /\ next_id.sys_user <= MaxUser + 1
        /\ create_user(u, Username(next_id.sys_user), IdCard(next_id.sys_user),
                       1, role_ids)
        /\ UNCHANGED env

DoDismiss ==
    \E u \in Principals, user_id \in 1..(MaxUser + 1) :
        /\ delete_user(u, user_id)
        /\ UNCHANGED env

NextRole ==
    \/ DoCreateRole
    \/ DoDeleteRole
    \/ DoEnroll
    \/ DoDismiss

SpecRole == InitRole /\ [][NextRole]_vars

----------------------------------------------------------------------------
\* Properties of the permission resolver and of the gated handlers.

\* The permissions with a code attached, through SysPermission.roles, to a
\* role the user holds.
Attached(user, code) ==
    {p \in sys_permission :
        /\ p.permission_code = code
        /\ \E r \in sys_role : /\ <<user, r.id>> \in user_role_association
                               /\ <<r.id, p.id>> \in rel_role_permission}

Present(code) == \E p \in sys_permission : p.permission_code = code

\* The requests the model sends to the three handlers that ask for a
\* permission.
CreatePermissionDenied(u) ==
    \A code \in NewCodes :
        create_permission_response(u, code, DisplayName(code), 1).status = 403

\* C1: a request to a mutating endpoint by a principal that does not hold
\* the endpoint's permission code is answered 403 (and so writes nothing).
\* Stated for the handlers of user creation, permission creation and
\* role-permission assignment, each with the code its source names.
C1_MutationsGated ==
    \A u \in Principals :
        /\ ~check_permission(u, "user:create")[1] =>
              \A role_ids \in SeqsUpTo(RoleIds, 1) :
                  create_user_response(u, Username(MaxUser), IdCard(MaxUser), 1,
                                       role_ids).status = 403
        /\ ~check_permission(u, "role:assign")[1] =>
              \A role_id \in RoleIds, permission_ids \in IdLists(PermIds) :
                  assign_permissions_to_role_response(u, role_id,
                                                      permission_ids).status = 403
        /\ ~check_permission(u, "permission:create")[1] =>
              CreatePermissionDenied(u)

\* C2: check_permission allows exactly when a permission with the code is
\* attached to a role the principal holds, and then its second component is
\* the display name of such a permission.
C2_CheckAllowsExactlyAttached ==
    \A u \in Principals, code \in Codes :
        LET result == check_permission(u, code)
        IN  /\ result[1] <=> Attached(u, code) # {}
            /\ result[1] => \E p \in Attached(u, code) : result[2] = p.permission_name

\* C2's case: one principal is allowed a code, and a principal that holds a
\* role is refused a code that a permission record carries.
C2_Witness ==
    /\ \E u \in Principals, code \in Codes : check_permission(u, code)[1]
    /\ \E u \in Principals, code \in Codes :
          /\ roles(u) # {}
          /\ Present(code)
          /\ ~check_permission(u, code)[1]

\* C3: a principal with no role gets (False, None) for every code, whether
\* or not a permission with the code exists.
C3_NoRoleNoAccess ==
    \A u \in Principals, code \in Codes :
        roles(u) = {} => check_permission(u, code) = <<FALSE, None>>

\* C3's case: a principal without roles, a code that exists and one that
\* does not.
C3_Witness ==
    \E u \in Principals :
        /\ roles(u) = {}
        /\ \E code \in Codes : Present(code)
        /\ \E code \in Codes : ~Present(code)

\* C4 as stated: for a code no permission carries, check_permission returns
\* (False, code) for every principal.
C4_AbsentCodeEveryPrincipal ==
    \A u \in Principals, code \in Codes :
        ~Present(code) => check_permission(u, code) = <<FALSE, code>>

\* C4 amended: for a code no permission carries, check_permission returns
\* (False, code) for every principal that holds at least one role.
C4_AbsentCodeWithRole ==
    \A u \in Principals, code \in Codes :
        (~Present(code) /\ roles(u) # {}) =>
            check_permission(u, code) = <<FALSE, code>>

\* C4's case: a principal that holds a role, beside one that holds none, and a
\* code no permission carries.
C4_Witness ==
    /\ \E u \in Principals : roles(u) # {}
    /\ \E u \in Principals : roles(u) = {}
    /\ \E code \in Codes : ~Present(code)

\* C5: when an assignment to a role succeeds, the very next check of a
\* principal whose only role is that role allows exactly the codes of the
\* permissions just assigned.
C5_AssignmentTakesEffect ==
    [][\A u \in Principals, role_id \in RoleIds, permission_ids \in IdLists(PermIds) :
          (/\ assign_permissions_to_role_response(u, role_id,
                                                  permission_ids).status = 200
           /\ assign_permissions_to_role(u, role_id, permission_ids))
          => \A v \in Principals, code \in Codes :
                roles(v) = {role_id} =>
                    (check_permission(v, code)[1]' <=>
                        \E p \in sys_permission : /\ p.id \in Range(permission_ids)
                                                  /\ p.permission_code = code)]_vars

\* C6: after an assignment to a role succeeds, the role's permission set is
\* exactly the requested set, for the read through SysRole.permissions and
\* for the check through SysPermission.roles alike.
C6_AssignmentReplaces ==
    [][\A u \in Principals, role_id \in RoleIds, permission_ids \in IdLists(PermIds) :
          (/\ assign_permissions_to_role_response(u, role_id,
                                                  permission_ids).status = 200
           /\ assign_permissions_to_role(u, role_id, permission_ids))
          => /\ {p.id : p \in permissions(role_id)}' = Range(permission_ids)
             /\ {p.id : p \in {x \in sys_permission :
                                  role_id \in permission_roles(x.id)}}'
                = Range(permission_ids)]_vars

\* The display value C7 asks for.
RequiredName(code) ==
    IF Present(code)
    THEN (CHOOSE p \in sys_permission : p.permission_code = code).permission_name
    ELSE code

\* C7: a 403 of a gated handler names the display name of the required
\* permission when a record with the code exists, and the raw code only
\* when none exists, for every refused principal.
C7_ForbiddenNamesPermission ==
    \A u \in Principals :
        LET r1 == create_user_response(u, Username(MaxUser), IdCard(MaxUser), 1, <<>>)
            r2 == assign_permissions_to_role_response(u, 1, <<>>)
        IN  /\ r1.status = 403 => r1.detail[2] = RequiredName("user:create")
            /\ r2.status = 403 => r2.detail[2] = RequiredName("role:assign")

----------------------------------------------------------------------------
\* Properties of the token validation.

\* The tokens a caller may present in a state.
Presented == OtherTokens \cup {bearer.token}

Expired(token) == has(token.payload, "exp") /\ token.payload["exp"] < now

Resolves(token) ==
    /\ has(token.payload, "user_id")
    /\ \E u \in sys_user : u.id = token.payload["user_id"]

\* C8: get_current_user accepts a token exactly when it is signed, its exp
\* has not passed, it carries a user_id and the user_id is an account; a
\* token that login issued at time t is refused as invalid at every time
\* after t + ACCESS_TOKEN_EXPIRE_MINUTES; and, while it has not expired, it
\* is refused with "user does not exist" once its account is deleted.
C8_TokenValidation ==
    /\ \A token \in Presented :
          LET r == get_current_user(token)
          IN  /\ r.status = 200 <=>
                    (token.signed /\ ~Expired(token) /\ Resolves(token))
              /\ r.status = 200 => r.user = token.payload["user_id"]
    /\ bearer.by_login =>
          LET r == get_current_user(bearer.token)
          IN  /\ now > bearer.issued_at + ACCESS_TOKEN_EXPIRE_MINUTES =>
                    (r.status = 401 /\ r.detail = "invalid token")
              /\ (/\ now <= bearer.issued_at + ACCESS_TOKEN_EXPIRE_MINUTES
                  /\ ~Resolves(bearer.token)) =>
                    (r.status = 401 /\ r.detail = "user does not exist")

\* C8's case: a token that login issued after the start has outlived its
\* lifetime, and the account it names has been deleted meanwhile.
C8_Witness ==
    /\ bearer.by_login
    /\ bearer.issued_at > 0
    /\ now > bearer.issued_at + ACCESS_TOKEN_EXPIRE_MINUTES
    /\ ~Resolves(bearer.token)

----------------------------------------------------------------------------
\* Properties of the order numbers.

Dates == {strftime(d * 1440) : d \in 0..MaxDay}

Stored(today) == {o.order_number : o \in {x \in sys_order :
                                              substr8(x.order_number) = today}}

\* The rows a client POSTs: n rows with the number it read.
Batch(c, n) == [i \in 1..n |-> [order_number |-> client[c].order_number]]

\* C9: two clients that read the next number for the same date with no
\* order row written between their reads hold the same number, and after
\* one of them has stored its batch the handler still accepts the batch of
\* the other with that number (a number of at most 11 characters).
C9_RacingImportsShareNumber ==
    \A c1 \in Clients, c2 \in Clients :
        (/\ c1 # c2
         /\ client[c1].pc \in {"read", "done"}
         /\ client[c2].pc = "read"
         /\ client[c1].today = client[c2].today
         /\ client[c1].seen = client[c2].seen)
        => /\ client[c1].order_number = client[c2].order_number
           /\ insertable(client[c2]) =>
                 \A n \in 1..MaxBatch :
                     create_order_item_response(1, TRUE, Batch(c2, n)).status = 200

\* C9's case: both clients read before either wrote, both stored their
\* batch, and the rows of the two batches carry one order number.
C9_Witness ==
    \E c1 \in Clients, c2 \in Clients :
        /\ c1 # c2
        /\ client[c1].pc = "done" /\ client[c1].status = 200
        /\ client[c2].pc = "done" /\ client[c2].status = 200
        /\ client[c1].seen = client[c2].seen
        /\ client[c1].order_number = client[c2].order_number
        /\ Cardinality({o \in sys_order :
                           o.order_number = client[c1].order_number}) >= 2

\* The greatest stored order number of a date.
Greatest(today) ==
    CHOOSE m \in Stored(today) :
        \A x \in Stored(today) : x = m \/ str_less(x, m)

\* The number that the last three characters of m spell.
Seq3(m) == 100 * m[Len(m) - 2] + 10 * m[Len(m) - 1] + m[Len(m)]

\* n written in decimal, padded with zeros to three digits.
Padded3(n) ==
    IF n < 1000
    THEN <<n \div 100, (n \div 10) % 10, n % 10>>
    ELSE <<n \div 1000, (n \div 100) % 10, (n \div 10) % 10, n % 10>>

\* C10: for a date with no stored number the next number is the date
\* followed by 001; otherwise it is the date followed by the number in the
\* last three characters of the greatest stored number of the date, plus one,
\* padded to three digits (when those characters are digits).
C10_NextOrderNumber ==
    \A today \in Dates :
        LET r == generate_order_number(today)
        IN  IF Stored(today) = {}
            THEN r.ok /\ r.order_number = today \o <<0, 0, 1>>
            ELSE IsDigits(last3(Greatest(today))) =>
                    /\ r.ok
                    /\ r.order_number = today \o Padded3(Seq3(Greatest(today)) + 1)

\* C10's case: a date with stored numbers whose greatest ends in 001, so the
\* next is the date followed by 002, beside a date with none.
C10_Witness ==
    /\ \E today \in Dates :
          /\ Stored(today) # {}
          /\ Greatest(today) = today \o <<0, 0, 1>>
          /\ generate_order_number(today).order_number = today \o <<0, 0, 2>>
    /\ \E today \in Dates : Stored(today) = {}

\* C11: every order number the sequencer produces, through
\* generate_order_number or through the next-order-number endpoint, has
\* exactly 11 characters, all of them digits.
C11_ElevenCharacters ==
    \A today \in Dates :
        LET r == generate_order_number(today)
            p == get_next_order_number(1, today)
        IN  /\ r.ok => (Len(r.order_number) = 11 /\ IsDigits(r.order_number))
            /\ p.status = 200 =>
                  (Len(p.order_number) = 11 /\ IsDigits(p.order_number))

\* The order of the numbers two digit strings without leading zeros spell.
num_less(a, b) == Len(a) < Len(b) \/ (Len(a) = Len(b) /\ str_less(a, b))

\* C12: the order number the sequencer returns for a date is greater, as a
\* string and as a number, than every order number stored for that date.
C12_StrictlyGreater ==
    \A today \in Dates :
        LET r == generate_order_number(today)
        IN  r.ok =>
                \A x \in Stored(today) :
                    /\ str_less(x, r.order_number)
                    /\ IsDigits(x) => num_less(x, r.order_number)

\* A step in which client c receives the answer of next-order-number.
PeekStep(c) == client[c].pc = "idle" /\ client'[c].pc = "read"

\* Client d has peeked on the current date and no order row has been written
\* since.
PeekedLast(d) ==
    /\ client[d].pc = "read"
    /\ client[d].seen = next_id.sys_order
    /\ client[d].today = strftime(now)

\* C13: a peek changes no table, and it returns the number that the peek
\* before it returned when that was on the same date and no order row has
\* been written in between.
C13_PeekReadsOnly ==
    [][\A c \in Clients :
          PeekStep(c) =>
              /\ UNCHANGED db
              /\ \A d \in Clients \ {c} :
                    PeekedLast(d) =>
                        client'[c].order_number = client[d].order_number]_vars

\* C13's case: two clients have peeked one after the other on a date that
\* has stored order rows, with no write in between.
C13_Witness ==
    /\ \A c \in Clients : PeekedLast(c)
    /\ Stored(strftime(now)) # {}

\* A step in which the batch of client c is answered.
ImportStep(c) == client[c].pc = "read" /\ client'[c].pc = "done"

\* The rows an item list stores when all of it is inserted.
Rows(items, first_id) ==
    {[id |-> first_id + i - 1, order_number |-> items[i].order_number] :
        i \in DOMAIN items}

\* C14: when one item of a batch cannot be inserted, that item alone is
\* skipped: the other items of the batch are stored and the request
\* succeeds.
C14_SkipsFailedRecord ==
    [][\A c \in Clients :
          ImportStep(c) =>
              LET items == client'[c].items
                  good == SelectSeq(items, insertable)
              IN  /\ Cardinality(sys_order') = Cardinality(sys_order) + Len(good)
                  /\ Len(good) > 0 => client'[c].status = 200]_vars

\* The rows of sys_order that the batch of client c stored.
BatchRows(c) ==
    {o \in sys_order :
        /\ o.id >= client[c].first_id
        /\ o.id < client[c].first_id + Len(client[c].items)}

\* C15: the rows one batch stored all carry one order number; no batch
\* stores rows with two different order numbers.
C15_BatchSharesNumber ==
    \A c \in Clients :
        (client[c].pc = "done" /\ client[c].status = 200) =>
            \A o1 \in BatchRows(c), o2 \in BatchRows(c) :
                o1.order_number = o2.order_number

\* C16: a batch with an item that cannot be inserted stores nothing and
\* leaves sys_order as it was; a batch without one stores every item.
C16_BatchAllOrNothing ==
    [][\A c \in Clients :
          ImportStep(c) =>
              LET items == client'[c].items
              IN  IF \E i \in DOMAIN items : ~insertable(items[i])
                  THEN sys_order' = sys_order /\ client'[c].status = 400
                  ELSE /\ sys_order' = sys_order \cup Rows(items, next_id.sys_order)
                       /\ client'[c].status = 200]_vars

\* C16's case: a batch of an item that can be inserted and one that cannot
\* was refused, and no row of it is stored.
C16_Witness ==
    \E c \in Clients :
        /\ client[c].pc = "done"
        /\ client[c].status = 400
        /\ \E i \in DOMAIN client[c].items : insertable(client[c].items[i])
        /\ \E i \in DOMAIN client[c].items : ~insertable(client[c].items[i])
        /\ next_id.sys_order = client[c].first_id
        /\ BatchRows(c) = {}

----------------------------------------------------------------------------
\* Properties of the department tree.

\* The users of a department: the backref of SysUser.department.
users(dept_id) == {u \in sys_user : u.department_id = dept_id}

InUse(dept_id) == children(dept_id) # {} \/ users(dept_id) # {}

RECURSIVE ancestors(_, _)
ancestors(dept_id, n) ==
    IF n = 0
    THEN {}
    ELSE LET parents == {d.parent_id : d \in {x \in sys_department :
                                                 x.id = dept_id}} \ {NoId}
         IN  parents \cup UNION {ancestors(p, n - 1) : p \in parents}

\* C18: the parent relation is a forest: no department is its own parent
\* and no department is its own ancestor through a longer chain.
C18_ParentRelationIsForest ==
    \A d \in sys_department :
        d.id \notin ancestors(d.id, Cardinality(sys_department))

----------------------------------------------------------------------------
\* Properties of the accounts.

\* The id-card numbers that a user other than user_id holds.
TakenCards(user_id) == {u.id_card : u \in {x \in sys_user : x.id # user_id}}

\* C19: no two users share a username or an id-card number, and a request
\* that would duplicate one (a creation, an administrative update, a
\* profile update) is rejected as a conflict, the 400 that the handlers
\* raise for a taken value.
C19_UniqueAndConflict ==
    /\ \A u1 \in sys_user, u2 \in sys_user :
          u1.id # u2.id =>
            u1.username # u2.username /\ u1.id_card # u2.id_card
    /\ \A u \in sys_user :
          /\ create_user_response(1, u.username, IdCard(MaxUser + 2), 1,
                                  <<>>).status = 400
          /\ create_user_response(1, Username(MaxUser + 2), u.id_card, 1,
                                  <<>>).status = 400
          /\ \A id_card \in TakenCards(u.id) :
                /\ update_user_response(1, u.id, id_card, NoId).status = 400
                /\ update_profile_response(u.id, id_card).status = 400

----------------------------------------------------------------------------
\* Properties of the row extractor.

\* Row i has exactly one non-empty cell.
SingleCell(worksheet, i) == non_empty_count(worksheet[i]) = 1

\* The value of the one non-empty cell of row i.
SingleValue(worksheet, i) ==
    LET row == worksheet[i]
        c == CHOOSE k \in DOMAIN row :
                row[k] # NoneCell /\ strip(row[k].text) # <<>>
    IN  StrCell(normalize_text(row[c].text))

\* The single-cell rows before row i.
Before(worksheet, i) == {j \in 1..(i - 1) : SingleCell(worksheet, j)}

\* Row i has a location of its own: a cell with a value in a column that the
\* header maps to location.
OwnLocation(worksheet, column_index_map, i) ==
    \E c \in DOMAIN column_index_map :
        /\ column_index_map[c] = "location"
        /\ worksheet[i][c] # NoneCell

\* The record that row i is to give: its mapped cells and the metadata,
\* and, when it has no location of its own, the value of the last
\* single-cell row before it.
Record(worksheet, column_index_map, metadata, i) ==
    LET cells == row_data(worksheet[i], column_index_map)
        base == add_metadata(cells, metadata)
        markers == Before(worksheet, i)
        last == CHOOSE j \in markers : \A k \in markers : k <= j
    IN  IF markers # {} /\ ~OwnLocation(worksheet, column_index_map, i)
        THEN setitem(base, "location", SingleValue(worksheet, last))
        ELSE base

\* The records of rows 1..n that are not single-cell rows, in row order.
RECURSIVE Records(_, _, _, _)
Records(worksheet, column_index_map, metadata, n) ==
    IF n = 0
    THEN <<>>
    ELSE IF SingleCell(worksheet, n)
    THEN Records(worksheet, column_index_map, metadata, n - 1)
    ELSE Append(Records(worksheet, column_index_map, metadata, n - 1),
                Record(worksheet, column_index_map, metadata, n))

\* C20: a row after the header with exactly one non-empty cell never
\* appears in the output, and its value is the location of every later data
\* row that has no location of its own, until another single-cell row
\* replaces it: the output is the records of the other rows, each with the
\* location of the last single-cell row before it unless it has its own,
\* less the records without data.
C20_LocationCarried ==
    parser.pc = "done" =>
        parser.filtered_data =
            SelectSeq(Records(parser.worksheet, parser.column_index_map,
                              parser.metadata, Len(parser.worksheet)),
                      has_real_data)

\* The field of a record is empty: None, or a text without a character.
Empty(value) == value = NoneCell \/ value.text = <<>>

\* A record with a field, other than project_name, component and location,
\* that is not empty.
Measured(item) ==
    \E key \in DOMAIN item :
        /\ key \notin {"project_name", "component", "location"}
        /\ ~Empty(item[key])

\* The row specifies the field: the header maps a column to it and the
\* row's cell in that column is not empty.
Specifies(row, column_index_map, key) ==
    \E c \in DOMAIN column_index_map :
        /\ column_index_map[c] = key
        /\ row[c] # NoneCell
        /\ strip(row[c].text) # <<>>

\* C21: the project name and the component read from A2 and G2 are in
\* every emitted record (a built record that passes the filter and has a
\* measurement) whose row does not specify the field, because the sheet has
\* no column for it or because the row's cell in that column is empty.
C21_MetadataApplied ==
    [][(parser.pc = "rows" /\ Len(parser'.data_list) = Len(parser.data_list) + 1) =>
          LET row == parser.worksheet[parser.row_idx]
              item == parser'.data_list[Len(parser'.data_list)]
          IN  (has_real_data(item) /\ Measured(item)) =>
                \A key \in DOMAIN parser.metadata :
                    ~Specifies(row, parser.column_index_map, key) =>
                        key \in DOMAIN item /\ item[key] = parser.metadata[key]]_vars

\* C22: a built record is dropped exactly when every field other than
\* project_name, component and location is empty: the output is the built
\* records that have a measurement, in order.
C22_DroppedExactlyWhenUnmeasured ==
    parser.pc = "done" =>
        parser.filtered_data = SelectSeq(parser.data_list, Measured)

----------------------------------------------------------------------------
\* Properties of the permission wrapper.

\* C28: a handler wrapped by require_permission(code) is invoked only when
\* the calling principal holds the permission code; for a principal that
\* lacks it the wrapper raises 403 and the handler does not run.
C28_WrapperGates ==
    \A u \in Principals, code \in Codes :
        LET call == require_permission(code, TRUE, TRUE, u)
        IN  /\ call.invoked => check_permission(u, code)[1]
            /\ ~check_permission(u, code)[1] => call.status = 403

----------------------------------------------------------------------------
\* Properties of the rejected assignments.

\* The list names an id that no permission has, or names an id twice.
Unassignable(permission_ids) ==
    \/ \E i \in DOMAIN permission_ids :
          ~\E p \in sys_permission : p.id = permission_ids[i]
    \/ \E i \in DOMAIN permission_ids, j \in DOMAIN permission_ids :
          i # j /\ permission_ids[i] = permission_ids[j]

\* The rows of both association tables that belong to the role.
RoleRows(role_id) ==
    <<{r \in rel_role_permission : r[1] = role_id},
      {r \in role_permission_association : r[1] = role_id}>>

\* C29: an assignment request that names a permission id that does not
\* exist, or the same id twice, is answered 400 when its caller holds
\* role:assign and the role exists (403 and 404 come first otherwise), and
\* it leaves the role's permission set as it was.
C29_BadAssignmentRejected ==
    \A u \in Principals, role_id \in RoleIds, permission_ids \in IdLists(PermIds) :
        Unassignable(permission_ids) =>
          LET response == assign_permissions_to_role_response(u, role_id,
                                                              permission_ids)
          IN  /\ response.status \in {400, 403, 404}
              /\ (check_permission(u, "role:assign")[1]
                  /\ \E r \in sys_role : r.id = role_id)
                 => response.status = 400
              /\ ~ENABLED (/\ assign_permissions_to_role(u, role_id, permission_ids)
                           /\ UNCHANGED env
                           /\ RoleRows(role_id)' # RoleRows(role_id))

\* C29 witness: the administrator's role holds a permission, and the
\* administrator is refused a list with an id that does not exist and a
\* list with the id of an existing permission twice.
C29_Witness ==
    \E role_id \in RoleIds, p \in sys_permission, q \in PermIds :
        /\ check_permission(1, "role:assign")[1]
        /\ RoleRows(role_id)[1] # {}
        /\ ~\E x \in sys_permission : x.id = q
        /\ assign_permissions_to_role_response(1, role_id, <<q>>).status = 400
        /\ assign_permissions_to_role_response(1, role_id, <<p.id, p.id>>).status = 400

----------------------------------------------------------------------------
\* Properties of the roles and their holders.

\* The list names a role id that no role has.
NamesMissingRole(role_ids) ==
    \E i \in DOMAIN role_ids : ~\E r \in sys_role : r.id = role_ids[i]

\* C30: every role held by a user exists; the delete of a role that a user
\* holds is answered 400 and changes nothing; the creation of a user with
\* a role id that does not exist is refused (400, or 403 for a caller
\* without user:create) and creates no user.
C30_HeldRolesExist ==
    /\ \A a \in user_role_association :
          /\ \E u \in sys_user : u.id = a[1]
          /\ \E r \in sys_role : r.id = a[2]
    /\ \A u \in Principals, role_id \in RoleIds :
          role_users(role_id) # {} =>
            /\ delete_role_response(u, role_id).status = 400
            /\ ~ENABLED (delete_role(u, role_id) /\ UNCHANGED env /\ db' # db)
    /\ \A u \in Principals, role_ids \in IdLists(RoleIds) :
          NamesMissingRole(role_ids) =>
            /\ create_user_response(u, Username(next_id.sys_user),
                                    IdCard(next_id.sys_user), 1,
                                    role_ids).status \in {400, 403}
            /\ ~ENABLED (/\ create_user(u, Username(next_id.sys_user),
                                        IdCard(next_id.sys_user), 1, role_ids)
                         /\ UNCHANGED env
                         /\ db' # db)

\* C30 witness: a role that a user other than the administrator holds, whose
\* delete is refused, beside a role id that is free again after its role
\* was deleted, which the administrator cannot give to a new user.
C30_Witness ==
    \E role_id \in RoleIds, gone \in RoleIds :
        /\ role_users(role_id) \ {1} # {}
        /\ delete_role_response(1, role_id).status = 400
        /\ gone < next_id.sys_role
        /\ ~\E r \in sys_role : r.id = gone
        /\ create_user_response(1, Username(next_id.sys_user),
                                IdCard(next_id.sys_user), 1, <<gone>>).status = 400


----------------------------------------------------------------------------
\* Properties of the header functions

\* The number of cells of row r that match a key field.
KeyFieldCells(worksheet, r) ==
    IF r \in DOMAIN worksheet
    THEN Cardinality({i \in DOMAIN worksheet[r] : matches_key_field(worksheet[r][i])})
    ELSE 0

\* The rows among the first 15 with at least 3 such cells.
HeaderLike(worksheet) == {r \in 1..15 : KeyFieldCells(worksheet, r) >= 3}

\* C23: find_header_row returns the smallest row index in 1..15 whose count
\* of cells matching a key field is at least 3, and returns 1 when no row in
\* 1..15 reaches 3.
C23_FirstHeaderLikeRow ==
    parser.pc = "header_row_idx" =>
        LET rows == HeaderLike(parser.worksheet)
        IN  IF rows = {}
            THEN parser.header_row_idx = 1
            ELSE /\ parser.header_row_idx \in rows
                 /\ \A r \in rows : parser.header_row_idx <= r

\* Row 3 has three key fields, rows 1 and 2 have fewer, and row 3 was returned.
C23_Witness ==
    /\ parser.pc = "header_row_idx"
    /\ KeyFieldCells(parser.worksheet, 3) >= 3
    /\ KeyFieldCells(parser.worksheet, 1) = 2
    /\ KeyFieldCells(parser.worksheet, 2) = 2
    /\ parser.header_row_idx = 3


\* C24: extract_column_name is idempotent: applied to a header it returned,
\* it returns that header again.
C24_Idempotent ==
    parser.pc = "header of header" => parser.again = parser.header

\* Python's whitespace removed from a text.
Unspaced(text) == SelectSeq(text, LAMBDA ch : ~isspace(ch))

\* C25: a header that starts with the graph-info characters once whitespace
\* and newlines are removed is returned as the graph-info header and feeds
\* the field graph_info, whatever follows the four characters.
C25_GraphInfoPrefix ==
    (parser.pc = "header" /\ startswith(Unspaced(parser.cell.text), GraphInfo)) =>
        /\ parser.header = GraphInfo
        /\ parser.field_name = "graph_info"

\* C25 for the blanks is_graph_info_header removes: space, \n and \r.
GraphInfoPrefixOfPlainBlanks ==
    (/\ parser.pc = "header"
     /\ startswith(SelectSeq(parser.cell.text, LAMBDA ch : ch \notin {" ", "\n", "\r"}),
                   GraphInfo)) =>
        /\ parser.header = GraphInfo
        /\ parser.field_name = "graph_info"

\* C26: every rendering of a known header, whichever line break it uses,
\* however many spaces, and with ASCII or full-width brackets, feeds the field
\* of that header.
C26_VariantsShareField ==
    parser.pc = "header" =>
        \A i \in DOMAIN COLUMN_MAPPING :
            parser.cell.text \in Variants(COLUMN_MAPPING[i][1]) =>
                parser.field_name = COLUMN_MAPPING[i][2]

\* C26 for a single way of varying a known header.
VariantsShareFieldBy(Vary(_)) ==
    parser.pc = "header" =>
        \A i \in DOMAIN COLUMN_MAPPING :
            parser.cell.text \in Vary(COLUMN_MAPPING[i][1]) =>
                parser.field_name = COLUMN_MAPPING[i][2]

SpacingsShareField == VariantsShareFieldBy(Spacings)

NewlinesShareField == VariantsShareFieldBy(Newlines)

BracketsShareField == VariantsShareFieldBy(Brackets)

\* The positions of a colon of either kind.
Colons(text) == {k \in DOMAIN text : text[k] \in {Colon, WideColon}}

\* C27: when the cell holds a colon of either kind, extract_value_after_colon
\* returns the normalized text after the leftmost of them.
C27_AfterLeftmostColon ==
    (parser.pc = "value" /\ Colons(parser.text) # {}) =>
        LET first == CHOOSE k \in Colons(parser.text) :
                         \A j \in Colons(parser.text) : k <= j
        IN  parser.value =
                StrCell(normalize_text(SubSeq(parser.text, first + 1, Len(parser.text))))

\* C27 for a cell that holds one kind of colon only.
AfterLeftmostColonOfOneKind ==
    (/\ parser.pc = "value"
     /\ Colons(parser.text) # {}
     /\ \A j, k \in Colons(parser.text) : parser.text[j] = parser.text[k]) =>
        LET first == CHOOSE k \in Colons(parser.text) :
                         \A j \in Colons(parser.text) : k <= j
        IN  parser.value =
                StrCell(normalize_text(SubSeq(parser.text, first + 1, Len(parser.text))))

====
